---- MODULE Spec2Model ----
(***************************************************************************)
(* Verification model of the logtick agent.                                *)
(*                                                                         *)
(*   Part I  : the collection runtime of main.go (one goroutine per active *)
(*             collector, the shared map currentCollectedData under        *)
(*             uiDataMutex, the published latestAgentReport under mu, the  *)
(*             WaitGroup and the shared cancellation context).             *)
(*   Part II : the WebSocketLogSender of sender/http_sender.go (connect    *)
(*             loop, read pump, SendLog, disconnect, Close) under s.mu.    *)
(*   Part III: the /api/current_metrics handler of main.go, which reads    *)
(*             latestAgentReport under mu.RLock.                           *)
(*   Part IV : HTTPSender.Send of sender/http_sender.go.                   *)
(*                                                                         *)
(* Parts I, II and IV share no state (they are separate objects in the     *)
(* source), so each has its own specification: Spec / FairSpec for Part I, *)
(* SenderSpec / SenderFairSpec for Part II, HttpSpec for Part IV.  The     *)
(* handler of Part III runs next to the collectors of Part I in ViewSpec.  *)
(*                                                                         *)
(*   Part V  : LoadConfig and SaveConfig of config/config.go and the       *)
(*             intervals the collectors' constructors derive from the      *)
(*             loaded configuration (ConfigSpec).                          *)
(***************************************************************************)
EXTENDS Integers, FiniteSets, Sequences, TLC

(***************************************************************************)
(* Bounds of the model                                                     *)
(***************************************************************************)
\* how many ticks the tickers of all collectors deliver in total
MaxTicks == 3
\* how many ticks the tickers deliver in total while requests of
\* /api/current_metrics are served (ViewSpec)
MaxViewTicks == 2
\* how many connections the log endpoint accepts (handles are 1..MaxConns)
MaxConns == 2
\* how many log lines are emitted in total
MaxLines == 2
\* how many goroutines call SendLog
NumEmitters == 2
\* how many times LoadConfig is called on the same file
MaxLoads == 2

(***************************************************************************)
(* Part I : state of main.go                                               *)
(***************************************************************************)
VARIABLES
    mainPc,               \* position of main(): "start", "wait", "complete"
    cancelled,            \* ctx.Done() is closed (cancel() was called)
    pc,                   \* position of each collector goroutine
    tickPending,          \* a tick is buffered in ticker.C (capacity 1)
    collectedMetrics,     \* the goroutine's local result of c.Collect()
    fullReport,           \* the goroutine's local *AgentReport
    currentCollectedData, \* map[string]interface{}; 0 = key absent
    uiDataMutex,          \* sync.RWMutex guarding currentCollectedData
    mu,                   \* sync.RWMutex guarding latestAgentReport
    latestAgentReport,    \* *AgentReport, NilReport before the first publish
    wg,                   \* sync.WaitGroup counter
    metricsCollected,     \* agent_metrics_collected_total per collector
    metricsSent,          \* agent_metrics_sent_total per status
    collectorStatus,      \* agent_collector_status gauge per collector
    collectedOK,          \* history: how often Collect() returned a sample
    constructed           \* outcome of each collector's construction at startup

agentVars == <<mainPc, cancelled, pc, tickPending, collectedMetrics, fullReport,
               currentCollectedData, uiDataMutex, mu, latestAgentReport, wg,
               metricsCollected, metricsSent, collectorStatus, collectedOK,
               constructed>>

(***************************************************************************)
(* Part II : state of the WebSocketLogSender (sender/http_sender.go)       *)
(***************************************************************************)
VARIABLES
    spc,            \* position of every goroutine that runs sender code
    conn,           \* s.conn: 0 = nil, h > 0 = the h-th connection dialed
    senderMu,       \* s.mu (sync.Mutex): the goroutine that holds it
    senderCtxDone,  \* s.ctx is cancelled
    reconnectTick,  \* a tick is buffered in the connectLoop ticker
    urlValid,       \* url.Parse(s.wsURL) succeeds
    opened,         \* number of connections the dialer has returned
    closedConns,    \* connections on which Close() was called
    pumpConn,       \* the connection a readPump is blocked reading on
    emitLine,       \* the line a SendLog call is sending (0 = none)
    emitted,        \* number of SendLog calls made
    frames,         \* <<line, connection>> of every frame written
    dropped,        \* lines for which SendLog found s.conn == nil
    failedConns,    \* connections on which WriteMessage returned an error
    panicked,       \* a nil dereference has crashed the process
    linesAtClose    \* history: SendLog calls made before Close() returned
                    \* (-1 while Close() has not returned)

senderVars == <<spc, conn, senderMu, senderCtxDone, reconnectTick, urlValid,
                opened, closedConns, pumpConn, emitLine, emitted, frames,
                dropped, failedConns, panicked, linesAtClose>>

(***************************************************************************)
(* Part III : state of the /api/current_metrics handler (main.go)          *)
(***************************************************************************)
VARIABLES
    viewPc,        \* position of the handler goroutine of one request
    report,        \* the handler's local copy of latestAgentReport
    response       \* the last response sent: its kind and the report in it

viewVars == <<viewPc, report, response>>

(***************************************************************************)
(* Part IV : state of the calls of HTTPSender.Send                         *)
(***************************************************************************)
VARIABLES
    hpc,           \* position of each caller inside Send
    resp,          \* resp.StatusCode of the caller's response (0 = no response)
    err            \* what Send returned: "pending", "nil" or the failing step

httpVars == <<hpc, resp, err>>

(***************************************************************************)
(* Part V : state of config.LoadConfig and of the collectors' intervals    *)
(***************************************************************************)
VARIABLES
    cpc,             \* position of the caller of LoadConfig
    file,            \* the configuration file on disk
    data,            \* what os.ReadFile returned to the running LoadConfig
    cfg,             \* the *Config under construction / returned
    configModified,  \* LoadConfig's flag of the same name
    loadErr,         \* what LoadConfig returned: "pending", "nil" or the check that failed
    loads,           \* calls of LoadConfig made so far
    prevID,          \* history: AgentID of the last load that returned nil ("" = none)
    interval         \* interval (a time.Duration) of each constructed collector, 0 = none

configVars == <<cpc, file, data, cfg, configModified, loadErr, loads, prevID,
                interval>>

vars == <<agentVars, senderVars, viewVars, httpVars, configVars>>

\* goroutines of Part II: the connectLoop, the caller of Close, one readPump
\* per connection and the callers of SendLog
LoopP == <<"loop", 0>>
CloserP == <<"closer", 0>>
PumpP(h) == <<"pump", h>>
EmitP(e) == <<"emit", e>>
NoProc == <<"none", 0>>
Conns == 1..MaxConns
Emitters == 1..NumEmitters
SenderProcs ==
    {LoopP, CloserP} \cup {PumpP(h) : h \in Conns} \cup {EmitP(e) : e \in Emitters}

\* the collector names main.go knows (Name() of the three implementations)
Names == {"system", "mysql", "nginx"}

\* the value of a report that was never built / never published
NilReport == [system |-> 0, mysql |-> 0, nginx |-> 0, set |-> FALSE]

\* &AgentReport{AgentID, AgentName, Timestamp}: no metrics assigned yet
EmptyReport == [system |-> 0, mysql |-> 0, nginx |-> 0, set |-> TRUE]

\* sync.RWMutex: w is the goroutine holding the write lock, r the readers
RWFree == [w |-> "none", r |-> {}]

\* Lock() succeeds only when nobody holds the mutex in either mode
CanLock(m) == m.w = "none" /\ m.r = {}

\* RLock() succeeds when no writer holds the mutex
CanRLock(m) == m.w = "none"

\* the goroutine was started and has not returned
Running(c) == pc[c] \notin {"none", "done"}

\* ticks delivered so far to collector c: every consumed tick was followed by
\* a Collect() call, which is counted when it returns
TicksDelivered(c) ==
    metricsCollected[c] + (IF pc[c] = "collecting" THEN 1 ELSE 0)
                        + (IF tickPending[c] THEN 1 ELSE 0)

TotalTicks ==
    TicksDelivered("system") + TicksDelivered("mysql") + TicksDelivered("nginx")

\* main.go:87-217: main() before the collectors are built
AgentInit ==
    /\ mainPc = "start"
    /\ cancelled = FALSE
    /\ pc = [c \in Names |-> "none"]
    /\ tickPending = [c \in Names |-> FALSE]
    /\ collectedMetrics = [c \in Names |-> 0]
    /\ fullReport = [c \in Names |-> NilReport]
    /\ currentCollectedData = [c \in Names |-> 0]
    /\ uiDataMutex = RWFree
    /\ mu = RWFree
    /\ latestAgentReport = NilReport
    /\ wg = 0
    /\ metricsCollected = [c \in Names |-> 0]
    /\ metricsSent = [s \in {"success", "failure"} |-> 0]
    /\ collectorStatus = [c \in Names |-> 0]
    /\ collectedOK = 0
    /\ constructed = [c \in Names |-> "pending"]

\* http_sender.go:133-146: NewWebSocketLogSender; connectLoop is started
SenderInit ==
    /\ spc = [p \in SenderProcs |->
                 IF p = LoopP THEN "select"
                 ELSE IF p[1] = "pump" THEN "none" ELSE "idle"]
    /\ conn = 0
    /\ senderMu = NoProc
    /\ senderCtxDone = FALSE
    /\ reconnectTick = FALSE
    /\ urlValid \in BOOLEAN
    /\ opened = 0
    /\ closedConns = {}
    /\ pumpConn = [h \in Conns |-> 0]
    /\ emitLine = [e \in Emitters |-> 0]
    /\ emitted = 0
    /\ frames = {}
    /\ dropped = {}
    /\ failedConns = {}
    /\ panicked = FALSE
    /\ linesAtClose = -1

\* main.go constructs no WebSocketLogSender: while Part I runs, the sender
\* object of Part II stays as constructed
SenderIdle ==
    /\ SenderInit
    /\ urlValid

\* the responses of /api/current_metrics: none sent yet, the marker
\* {"error": "No metrics available yet."} (main.go:160) and an encoded
\* report (main.go:163)
NoResponse == [kind |-> "none", body |-> NilReport]
ErrorResponse == [kind |-> "error", body |-> NilReport]
ReportResponse(r) == [kind |-> "report", body |-> r]

\* main.go:153: no request of /api/current_metrics is being served
ViewerInit ==
    /\ viewPc = "idle"
    /\ report = NilReport
    /\ response = NoResponse

\* no call of HTTPSender.Send is in progress
HttpInit ==
    /\ hpc = [c \in Names |-> "idle"]
    /\ resp = [c \in Names |-> 0]
    /\ err = [c \in Names |-> "pending"]

\* a plugin section of the configuration (*MySQLConfig, *NginxConfig): set is
\* FALSE for a nil pointer; Addr is the DSN or the StubStatusURL
NoPlugin ==
    [set |-> FALSE, Enabled |-> FALSE, Addr |-> "", CollectionIntervalSeconds |-> 0]

\* config.go:172-181, 207-211, 222-226: the section LoadConfig fills in when
\* the YAML has none
DefaultPlugin ==
    [set |-> TRUE, Enabled |-> FALSE, Addr |-> "default",
     CollectionIntervalSeconds |-> 10]

\* the plugin sections a YAML file may hold: none, a disabled one, an enabled
\* one with or without address and with an interval that is missing, usual,
\* or very long
PluginSections ==
    {NoPlugin,
     [set |-> TRUE, Enabled |-> FALSE, Addr |-> "", CollectionIntervalSeconds |-> 0]}
    \cup {[set |-> TRUE, Enabled |-> TRUE, Addr |-> a, CollectionIntervalSeconds |-> n] :
              a \in {"", "addr"}, n \in {0, 10, 40}}

\* config.go:144-152: the values of a Config the YAML files of the model hold
Configs ==
    [AgentName : {"", "agent"}, AgentID : {"", "id-a"},
     IntervalSeconds : {-1, 0, 5, 40}, TargetURL : {"", "http://target"},
     LogLevel : {"", "debug"}, MySQL : PluginSections, Nginx : PluginSections]

\* config.go:156: cfg := &Config{}
ZeroConfig ==
    [AgentName |-> "", AgentID |-> "", IntervalSeconds |-> 0, TargetURL |-> "",
     LogLevel |-> "", MySQL |-> NoPlugin, Nginx |-> NoPlugin]

\* the file on disk: missing, unreadable, not YAML, or the YAML of a Config;
\* comment tells whether the agent_id line carries SaveConfig's comment
NoFile == [kind |-> "missing", body |-> ZeroConfig, comment |-> FALSE]
Files ==
    {[kind |-> k, body |-> ZeroConfig, comment |-> FALSE] :
        k \in {"missing", "unreadable", "garbage"}}
    \cup {[kind |-> "yaml", body |-> b, comment |-> FALSE] : b \in Configs}

\* nobody has called LoadConfig
LoaderIdle ==
    /\ cpc = "idle"
    /\ data = NoFile
    /\ cfg = ZeroConfig
    /\ configModified = FALSE
    /\ loadErr = "pending"
    /\ loads = 0
    /\ prevID = ""
    /\ interval = [c \in Names |-> 0]

\* Parts I to IV run with no configuration file in the picture
ConfigIdle == LoaderIdle /\ file = NoFile

\* LoadConfig is about to be called on any of the files
ConfigInit == LoaderIdle /\ file \in Files

Init == AgentInit /\ SenderIdle /\ ViewerInit /\ HttpInit /\ ConfigIdle

\* main.go:141-145: the signal goroutine calls cancel() on SIGINT/SIGTERM
Signal ==
    /\ ~cancelled
    /\ cancelled' = TRUE
    /\ UNCHANGED <<senderVars, viewVars, httpVars, configVars>>
    /\ UNCHANGED <<collectedOK, constructed>>
    /\ UNCHANGED <<mainPc, pc, tickPending, collectedMetrics, fullReport,
                   currentCollectedData, uiDataMutex, mu, latestAgentReport, wg,
                   metricsCollected, metricsSent, collectorStatus>>

\* main.go:179-203: a collector is disabled in the configuration, or its
\* constructor returns an error, or it is constructed
Construction == {"disabled", "error", "ok"}

\* an active set to which a collector is appended whatever its constructor
\* returned
ActiveCollectorsKeepsFailed(mysqlOK, nginxOK) == Names

\* main.go:173-204: the active set.  system is always active; mysql and nginx
\* are active when enabled in the configuration and their constructor succeeds
ActiveCollectors(mysqlOK, nginxOK) ==
    {"system"} \cup (IF mysqlOK THEN {"mysql"} ELSE {})
               \cup (IF nginxOK THEN {"nginx"} ELSE {})

\* a start loop that calls wg.Add(1) once, outside the loop
StartCollectorsAddOnce(active) ==
    /\ wg' = wg + 1
    /\ pc' = [c \in Names |-> IF c \in active THEN "select" ELSE "none"]

\* a start loop whose goroutines all drive the first collector of the slice
StartCollectorsFirstOnly(active) ==
    /\ wg' = wg + Cardinality(active)
    /\ pc' = [c \in Names |-> IF c = "system" THEN "select" ELSE "none"]

\* main.go:219-227: wg.Add(1) and one goroutine per active collector
StartCollectors(active) ==
    /\ wg' = wg + Cardinality(active)
    /\ pc' = [c \in Names |-> IF c \in active THEN "select" ELSE "none"]

\* main.go:173-297: build the active set, start the goroutines, reach wg.Wait
Startup ==
    /\ mainPc = "start"
    /\ \E mysql \in Construction, nginx \in Construction :
          /\ constructed' = [system |-> "ok", mysql |-> mysql, nginx |-> nginx]
          /\ StartCollectors(ActiveCollectors(mysql = "ok", nginx = "ok"))
    /\ mainPc' = "wait"
    /\ UNCHANGED <<senderVars, viewVars, httpVars, configVars>>
    /\ UNCHANGED collectedOK
    /\ UNCHANGED <<cancelled, tickPending, collectedMetrics, fullReport,
                   currentCollectedData, uiDataMutex, mu, latestAgentReport,
                   metricsCollected, metricsSent, collectorStatus>>

\* main.go:224: the runtime delivers a tick into ticker.C; a tick that finds
\* the one-slot channel full is dropped
TickWithin(c, budget) ==
    /\ Running(c)
    /\ ~tickPending[c]
    /\ TotalTicks < budget
    /\ tickPending' = [tickPending EXCEPT ![c] = TRUE]
    /\ UNCHANGED <<senderVars, viewVars, httpVars, configVars>>
    /\ UNCHANGED <<collectedOK, constructed>>
    /\ UNCHANGED <<mainPc, cancelled, pc, collectedMetrics, fullReport,
                   currentCollectedData, uiDataMutex, mu, latestAgentReport, wg,
                   metricsCollected, metricsSent, collectorStatus>>

Tick(c) == TickWithin(c, MaxTicks)

\* a ticker that starts a new cycle wherever the goroutine is
SelectTickWhileBusy(c) ==
    /\ Running(c)
    /\ tickPending[c]
    /\ tickPending' = [tickPending EXCEPT ![c] = FALSE]
    /\ pc' = [pc EXCEPT ![c] = "collecting"]
    /\ UNCHANGED <<senderVars, viewVars, httpVars, configVars>>
    /\ UNCHANGED <<collectedOK, constructed>>
    /\ UNCHANGED <<mainPc, cancelled, collectedMetrics, fullReport,
                   currentCollectedData, uiDataMutex, mu, latestAgentReport, wg,
                   metricsCollected, metricsSent, collectorStatus>>

\* main.go:230-234: select takes the ticker.C case and calls c.Collect().
\* Go's select chooses among the ready cases at random, so this case can be
\* taken whether or not ctx.Done() is ready too
SelectTick(c) ==
    /\ pc[c] = "select"
    /\ tickPending[c]
    /\ tickPending' = [tickPending EXCEPT ![c] = FALSE]
    /\ pc' = [pc EXCEPT ![c] = "collecting"]
    /\ UNCHANGED <<senderVars, viewVars, httpVars, configVars>>
    /\ UNCHANGED <<collectedOK, constructed>>
    /\ UNCHANGED <<mainPc, cancelled, collectedMetrics, fullReport,
                   currentCollectedData, uiDataMutex, mu, latestAgentReport, wg,
                   metricsCollected, metricsSent, collectorStatus>>

\* a goroutine that returns without the deferred wg.Done()
SelectDoneWithoutWgDone(c) ==
    /\ pc[c] = "select"
    /\ cancelled
    /\ pc' = [pc EXCEPT ![c] = "done"]
    /\ UNCHANGED <<senderVars, viewVars, httpVars, configVars>>
    /\ UNCHANGED <<collectedOK, constructed>>
    /\ UNCHANGED <<mainPc, cancelled, tickPending, collectedMetrics, fullReport,
                   currentCollectedData, uiDataMutex, mu, latestAgentReport, wg,
                   metricsCollected, metricsSent, collectorStatus>>

\* main.go:291-294 and the deferred wg.Done() of line 222
SelectDone(c) ==
    /\ pc[c] = "select"
    /\ cancelled
    /\ pc' = [pc EXCEPT ![c] = "done"]
    /\ wg' = wg - 1
    /\ UNCHANGED <<senderVars, viewVars, httpVars, configVars>>
    /\ UNCHANGED <<collectedOK, constructed>>
    /\ UNCHANGED <<mainPc, cancelled, tickPending, collectedMetrics, fullReport,
                   currentCollectedData, uiDataMutex, mu, latestAgentReport,
                   metricsCollected, metricsSent, collectorStatus>>

\* an error branch that stores the nil result before it continues
CollectErrorStoresNil(c) ==
    /\ pc[c] = "collecting"
    /\ metricsCollected' = [metricsCollected EXCEPT ![c] = @ + 1]
    /\ collectorStatus' = [collectorStatus EXCEPT ![c] = 0]
    /\ currentCollectedData' = [currentCollectedData EXCEPT ![c] = 0]
    /\ pc' = [pc EXCEPT ![c] = "select"]
    /\ UNCHANGED <<senderVars, viewVars, httpVars, configVars>>
    /\ UNCHANGED <<collectedOK, constructed>>
    /\ UNCHANGED <<mainPc, cancelled, tickPending, collectedMetrics, fullReport,
                   uiDataMutex, mu, latestAgentReport, wg, metricsSent>>

\* an error branch that withdraws the published report
CollectErrorClearsReport(c) ==
    /\ pc[c] = "collecting"
    /\ metricsCollected' = [metricsCollected EXCEPT ![c] = @ + 1]
    /\ collectorStatus' = [collectorStatus EXCEPT ![c] = 0]
    /\ latestAgentReport' = NilReport
    /\ pc' = [pc EXCEPT ![c] = "select"]
    /\ UNCHANGED <<senderVars, viewVars, httpVars, configVars>>
    /\ UNCHANGED <<collectedOK, constructed>>
    /\ UNCHANGED <<mainPc, cancelled, tickPending, collectedMetrics, fullReport,
                   currentCollectedData, uiDataMutex, mu, wg, metricsSent>>

\* an error branch that leaves the status gauge as it was
CollectErrorKeepsStatus(c) ==
    /\ pc[c] = "collecting"
    /\ metricsCollected' = [metricsCollected EXCEPT ![c] = @ + 1]
    /\ pc' = [pc EXCEPT ![c] = "select"]
    /\ UNCHANGED <<senderVars, viewVars, httpVars, configVars>>
    /\ UNCHANGED <<collectedOK, constructed>>
    /\ UNCHANGED <<mainPc, cancelled, tickPending, collectedMetrics, fullReport,
                   currentCollectedData, uiDataMutex, mu, latestAgentReport, wg,
                   metricsSent, collectorStatus>>

\* main.go:234-243: Collect() returned an error
CollectError(c) ==
    /\ pc[c] = "collecting"
    /\ metricsCollected' = [metricsCollected EXCEPT ![c] = @ + 1]
    /\ collectorStatus' = [collectorStatus EXCEPT ![c] = 0]
    /\ pc' = [pc EXCEPT ![c] = "select"]
    /\ UNCHANGED <<senderVars, viewVars, httpVars, configVars>>
    /\ UNCHANGED <<collectedOK, constructed>>
    /\ UNCHANGED <<mainPc, cancelled, tickPending, collectedMetrics, fullReport,
                   currentCollectedData, uiDataMutex, mu, latestAgentReport, wg,
                   metricsSent>>

\* main.go:234-246: Collect() returned a sample.  Samples of one collector are
\* told apart by their sequence number (the n-th call returns sample n)
CollectSuccess(c) ==
    /\ pc[c] = "collecting"
    /\ metricsCollected' = [metricsCollected EXCEPT ![c] = @ + 1]
    /\ collectorStatus' = [collectorStatus EXCEPT ![c] = 1]
    /\ collectedMetrics' = [collectedMetrics EXCEPT ![c] = metricsCollected[c] + 1]
    /\ collectedOK' = collectedOK + 1
    /\ UNCHANGED constructed
    /\ pc' = [pc EXCEPT ![c] = "lock"]
    /\ UNCHANGED <<senderVars, viewVars, httpVars, configVars>>
    /\ UNCHANGED <<mainPc, cancelled, tickPending, fullReport,
                   currentCollectedData, uiDataMutex, mu, latestAgentReport, wg,
                   metricsSent>>

\* a state update that enters its critical section without waiting
LockWithoutWaiting(c) ==
    /\ pc[c] = "lock"
    /\ uiDataMutex' = [uiDataMutex EXCEPT !.w = c]
    /\ pc' = [pc EXCEPT ![c] = "write"]
    /\ UNCHANGED <<senderVars, viewVars, httpVars, configVars>>
    /\ UNCHANGED <<collectedOK, constructed>>
    /\ UNCHANGED <<mainPc, cancelled, tickPending, collectedMetrics, fullReport,
                   currentCollectedData, mu, latestAgentReport, wg,
                   metricsCollected, metricsSent, collectorStatus>>

\* main.go:249: uiDataMutex.Lock()
Lock(c) ==
    /\ pc[c] = "lock"
    /\ CanLock(uiDataMutex)
    /\ uiDataMutex' = [uiDataMutex EXCEPT !.w = c]
    /\ pc' = [pc EXCEPT ![c] = "write"]
    /\ UNCHANGED <<senderVars, viewVars, httpVars, configVars>>
    /\ UNCHANGED <<collectedOK, constructed>>
    /\ UNCHANGED <<mainPc, cancelled, tickPending, collectedMetrics, fullReport,
                   currentCollectedData, mu, latestAgentReport, wg,
                   metricsCollected, metricsSent, collectorStatus>>

\* a state update that replaces the map by one holding only c's sample
WriteEntryReplacesMap(c) ==
    currentCollectedData' =
        [d \in Names |-> IF d = c THEN collectedMetrics[c] ELSE 0]

\* a state update that stores every sample under the name of the first
\* collector
WriteEntryUnderFixedKey(c) ==
    currentCollectedData' =
        [currentCollectedData EXCEPT !["system"] = collectedMetrics[c]]

\* main.go:250: currentCollectedData[c.Name()] = collectedMetrics
WriteEntry(c) ==
    currentCollectedData' =
        [currentCollectedData EXCEPT ![c] = collectedMetrics[c]]

Write(c) ==
    /\ pc[c] = "write"
    /\ WriteEntry(c)
    /\ pc' = [pc EXCEPT ![c] = "unlock"]
    /\ UNCHANGED <<senderVars, viewVars, httpVars, configVars>>
    /\ UNCHANGED <<collectedOK, constructed>>
    /\ UNCHANGED <<mainPc, cancelled, tickPending, collectedMetrics, fullReport,
                   uiDataMutex, mu, latestAgentReport, wg,
                   metricsCollected, metricsSent, collectorStatus>>

\* main.go:251: uiDataMutex.Unlock()
Unlock(c) ==
    /\ pc[c] = "unlock"
    /\ uiDataMutex' = [uiDataMutex EXCEPT !.w = "none"]
    /\ pc' = [pc EXCEPT ![c] = "rlock"]
    /\ UNCHANGED <<senderVars, viewVars, httpVars, configVars>>
    /\ UNCHANGED <<collectedOK, constructed>>
    /\ UNCHANGED <<mainPc, cancelled, tickPending, collectedMetrics, fullReport,
                   currentCollectedData, mu, latestAgentReport, wg,
                   metricsCollected, metricsSent, collectorStatus>>

\* main.go:255-263: fullReport := &AgentReport{...}; uiDataMutex.RLock()
RLock(c) ==
    /\ pc[c] = "rlock"
    /\ CanRLock(uiDataMutex)
    /\ uiDataMutex' = [uiDataMutex EXCEPT !.r = @ \cup {c}]
    /\ fullReport' = [fullReport EXCEPT ![c] = EmptyReport]
    /\ pc' = [pc EXCEPT ![c] = "rd_system"]
    /\ UNCHANGED <<senderVars, viewVars, httpVars, configVars>>
    /\ UNCHANGED <<collectedOK, constructed>>
    /\ UNCHANGED <<mainPc, cancelled, tickPending, collectedMetrics,
                   currentCollectedData, mu, latestAgentReport, wg,
                   metricsCollected, metricsSent, collectorStatus>>

\* the three map lookups of main.go:264-272, in program order
ReadPc == [system |-> "rd_system", mysql |-> "rd_mysql", nginx |-> "rd_nginx"]
AfterRead == [system |-> "rd_mysql", mysql |-> "rd_nginx", nginx |-> "runlock"]

\* a report scoped to the data of the collector that just fired
ReadFieldOwnOnly(c, f) ==
    /\ pc[c] = ReadPc[f]
    /\ fullReport' = [fullReport EXCEPT
                          ![c][f] = IF f = c THEN currentCollectedData[f] ELSE 0]
    /\ pc' = [pc EXCEPT ![c] = AfterRead[f]]
    /\ UNCHANGED <<senderVars, viewVars, httpVars, configVars>>
    /\ UNCHANGED <<collectedOK, constructed>>
    /\ UNCHANGED <<mainPc, cancelled, tickPending, collectedMetrics,
                   currentCollectedData, uiDataMutex, mu, latestAgentReport, wg,
                   metricsCollected, metricsSent, collectorStatus>>

\* a report built from the report published last instead of the map
ReadFieldFromLatest(c, f) ==
    /\ pc[c] = ReadPc[f]
    /\ fullReport' = [fullReport EXCEPT ![c][f] = latestAgentReport[f]]
    /\ pc' = [pc EXCEPT ![c] = AfterRead[f]]
    /\ UNCHANGED <<senderVars, viewVars, httpVars, configVars>>
    /\ UNCHANGED <<collectedOK, constructed>>
    /\ UNCHANGED <<mainPc, cancelled, tickPending, collectedMetrics,
                   currentCollectedData, uiDataMutex, mu, latestAgentReport, wg,
                   metricsCollected, metricsSent, collectorStatus>>

\* main.go:264-272: if m, ok := currentCollectedData[f].(*T); ok { fullReport.F = m }
\* (an absent key fails the type assertion and leaves the field nil)
ReadField(c, f) ==
    /\ pc[c] = ReadPc[f]
    /\ fullReport' = [fullReport EXCEPT ![c][f] = currentCollectedData[f]]
    /\ pc' = [pc EXCEPT ![c] = AfterRead[f]]
    /\ UNCHANGED <<senderVars, viewVars, httpVars, configVars>>
    /\ UNCHANGED <<collectedOK, constructed>>
    /\ UNCHANGED <<mainPc, cancelled, tickPending, collectedMetrics,
                   currentCollectedData, uiDataMutex, mu, latestAgentReport, wg,
                   metricsCollected, metricsSent, collectorStatus>>

\* a tick body that keeps its read lock on the state while it publishes
RUnlockKeepsReadLock(c) ==
    /\ pc[c] = "runlock"
    /\ pc' = [pc EXCEPT ![c] = "mu_lock"]
    /\ UNCHANGED <<senderVars, viewVars, httpVars, configVars>>
    /\ UNCHANGED <<collectedOK, constructed>>
    /\ UNCHANGED <<mainPc, cancelled, tickPending, collectedMetrics, fullReport,
                   currentCollectedData, uiDataMutex, mu, latestAgentReport, wg,
                   metricsCollected, metricsSent, collectorStatus>>

\* a tick body that delivers the report without publishing it first
RUnlockSkipsPublish(c) ==
    /\ pc[c] = "runlock"
    /\ uiDataMutex' = [uiDataMutex EXCEPT !.r = @ \ {c}]
    /\ pc' = [pc EXCEPT ![c] = "send"]
    /\ UNCHANGED <<senderVars, viewVars, httpVars, configVars>>
    /\ UNCHANGED <<collectedOK, constructed>>
    /\ UNCHANGED <<mainPc, cancelled, tickPending, collectedMetrics, fullReport,
                   currentCollectedData, mu, latestAgentReport, wg,
                   metricsCollected, metricsSent, collectorStatus>>

\* main.go:274: uiDataMutex.RUnlock()
RUnlock(c) ==
    /\ pc[c] = "runlock"
    /\ uiDataMutex' = [uiDataMutex EXCEPT !.r = @ \ {c}]
    /\ pc' = [pc EXCEPT ![c] = "mu_lock"]
    /\ UNCHANGED <<senderVars, viewVars, httpVars, configVars>>
    /\ UNCHANGED <<collectedOK, constructed>>
    /\ UNCHANGED <<mainPc, cancelled, tickPending, collectedMetrics, fullReport,
                   currentCollectedData, mu, latestAgentReport, wg,
                   metricsCollected, metricsSent, collectorStatus>>

\* main.go:277: mu.Lock()
MuLock(c) ==
    /\ pc[c] = "mu_lock"
    /\ CanLock(mu)
    /\ mu' = [mu EXCEPT !.w = c]
    /\ pc' = [pc EXCEPT ![c] = "publish"]
    /\ UNCHANGED <<senderVars, viewVars, httpVars, configVars>>
    /\ UNCHANGED <<collectedOK, constructed>>
    /\ UNCHANGED <<mainPc, cancelled, tickPending, collectedMetrics, fullReport,
                   currentCollectedData, uiDataMutex, latestAgentReport, wg,
                   metricsCollected, metricsSent, collectorStatus>>

\* main.go:278-279: latestAgentReport = fullReport; mu.Unlock()
Publish(c) ==
    /\ pc[c] = "publish"
    /\ latestAgentReport' = fullReport[c]
    /\ mu' = [mu EXCEPT !.w = "none"]
    /\ pc' = [pc EXCEPT ![c] = "send"]
    /\ UNCHANGED <<senderVars, viewVars, httpVars, configVars>>
    /\ UNCHANGED <<collectedOK, constructed>>
    /\ UNCHANGED <<mainPc, cancelled, tickPending, collectedMetrics, fullReport,
                   currentCollectedData, uiDataMutex, wg,
                   metricsCollected, metricsSent, collectorStatus>>

\* main.go:282-289: httpSender.Send(fullReport) returned; the outcome is
\* counted and the loop goes back to its select
SendReturn(c, status) ==
    /\ pc[c] = "send"
    /\ metricsSent' = [metricsSent EXCEPT ![status] = @ + 1]
    /\ pc' = [pc EXCEPT ![c] = "select"]
    \* collectedMetrics and fullReport are scoped to the case body
    /\ collectedMetrics' = [collectedMetrics EXCEPT ![c] = 0]
    /\ fullReport' = [fullReport EXCEPT ![c] = NilReport]
    /\ UNCHANGED <<senderVars, viewVars, httpVars, configVars>>
    /\ UNCHANGED <<collectedOK, constructed>>
    /\ UNCHANGED <<mainPc, cancelled, tickPending,
                   currentCollectedData, uiDataMutex, mu, latestAgentReport, wg,
                   metricsCollected, collectorStatus>>

\* an error branch that withdraws the report it could not deliver
SendFailureWithdrawsReport(c) ==
    /\ pc[c] = "send"
    /\ metricsSent' = [metricsSent EXCEPT !["failure"] = @ + 1]
    /\ pc' = [pc EXCEPT ![c] = "select"]
    /\ latestAgentReport' = NilReport
    /\ collectedMetrics' = [collectedMetrics EXCEPT ![c] = 0]
    /\ fullReport' = [fullReport EXCEPT ![c] = NilReport]
    /\ UNCHANGED <<senderVars, viewVars, httpVars, configVars>>
    /\ UNCHANGED <<collectedOK, constructed>>
    /\ UNCHANGED <<mainPc, cancelled, tickPending,
                   currentCollectedData, uiDataMutex, mu, wg,
                   metricsCollected, collectorStatus>>

\* an error branch that counts the failure and sends the report again
SendFailureRetries(c) ==
    /\ pc[c] = "send"
    /\ metricsSent' = [metricsSent EXCEPT !["failure"] = @ + 1]
    /\ UNCHANGED <<senderVars, viewVars, httpVars, configVars>>
    /\ UNCHANGED <<collectedOK, constructed>>
    /\ UNCHANGED <<mainPc, cancelled, pc, tickPending, collectedMetrics,
                   fullReport, currentCollectedData, uiDataMutex, mu,
                   latestAgentReport, wg, metricsCollected, collectorStatus>>

\* a success branch that counts the delivery under both outcomes
SendSuccessCountsBoth(c) ==
    /\ pc[c] = "send"
    /\ metricsSent' = [o \in {"success", "failure"} |-> metricsSent[o] + 1]
    /\ pc' = [pc EXCEPT ![c] = "select"]
    /\ collectedMetrics' = [collectedMetrics EXCEPT ![c] = 0]
    /\ fullReport' = [fullReport EXCEPT ![c] = NilReport]
    /\ UNCHANGED <<senderVars, viewVars, httpVars, configVars>>
    /\ UNCHANGED <<collectedOK, constructed>>
    /\ UNCHANGED <<mainPc, cancelled, tickPending,
                   currentCollectedData, uiDataMutex, mu, latestAgentReport, wg,
                   metricsCollected, collectorStatus>>

SendSuccess(c) == SendReturn(c, "success")

\* an error branch that returns from the goroutine when Send fails
SendFailureEndsTask(c) ==
    /\ pc[c] = "send"
    /\ metricsSent' = [metricsSent EXCEPT !["failure"] = @ + 1]
    /\ pc' = [pc EXCEPT ![c] = "done"]
    /\ wg' = wg - 1
    /\ collectedMetrics' = [collectedMetrics EXCEPT ![c] = 0]
    /\ fullReport' = [fullReport EXCEPT ![c] = NilReport]
    /\ UNCHANGED <<senderVars, viewVars, httpVars, configVars>>
    /\ UNCHANGED <<collectedOK, constructed>>
    /\ UNCHANGED <<mainPc, cancelled, tickPending,
                   currentCollectedData, uiDataMutex, mu, latestAgentReport,
                   metricsCollected, collectorStatus>>

SendFailure(c) == SendReturn(c, "failure")

\* main.go:300-301: wg.Wait() returns when the counter is zero
WaitReturn ==
    /\ mainPc = "wait"
    /\ wg = 0
    /\ mainPc' = "complete"
    /\ UNCHANGED <<senderVars, viewVars, httpVars, configVars>>
    /\ UNCHANGED <<collectedOK, constructed>>
    /\ UNCHANGED <<cancelled, pc, tickPending, collectedMetrics, fullReport,
                   currentCollectedData, uiDataMutex, mu, latestAgentReport, wg,
                   metricsCollected, metricsSent, collectorStatus>>

\* one step of the collector goroutine of c (main.go:221-296)
Task(c) ==
    \/ SelectTick(c)
    \/ SelectDone(c)
    \/ CollectError(c)
    \/ CollectSuccess(c)
    \/ Lock(c)
    \/ Write(c)
    \/ Unlock(c)
    \/ RLock(c)
    \/ \E f \in Names : ReadField(c, f)
    \/ RUnlock(c)
    \/ MuLock(c)
    \/ Publish(c)
    \/ SendSuccess(c)
    \/ SendFailure(c)

\* every step of main() and of the collector goroutines; the ticks of the
\* tickers are steps of the runtime
AgentStep ==
    \/ Signal
    \/ Startup
    \/ WaitReturn
    \/ \E c \in Names : SelectTick(c)
    \/ \E c \in Names : SelectDone(c)
    \/ \E c \in Names : CollectError(c)
    \/ \E c \in Names : CollectSuccess(c)
    \/ \E c \in Names : Lock(c)
    \/ \E c \in Names : Write(c)
    \/ \E c \in Names : Unlock(c)
    \/ \E c \in Names : RLock(c)
    \/ \E c \in Names, f \in Names : ReadField(c, f)
    \/ \E c \in Names : RUnlock(c)
    \/ \E c \in Names : MuLock(c)
    \/ \E c \in Names : Publish(c)
    \/ \E c \in Names : SendSuccess(c)
    \/ \E c \in Names : SendFailure(c)

Next ==
    \/ \E c \in Names : Tick(c)
    \/ AgentStep

Spec == Init /\ [][Next]_vars

\* Scheduling of Part I: the Go scheduler lets every goroutine that stays
\* able to take a step take one, and Collect() and Send() return.  Weak
\* fairness per goroutine is all that is assumed: a goroutine waiting for a
\* mutex, or at a select whose two cases are both ready, is only guaranteed
\* to move on once the step stays enabled.
Fairness ==
    /\ WF_vars(Startup)
    /\ WF_vars(WaitReturn)
    /\ \A c \in Names : WF_vars(Task(c))

FairSpec == Spec /\ Fairness

(***************************************************************************)
(* Part II : operations of the WebSocketLogSender                          *)
(***************************************************************************)
\* the goroutine is alive (the process did not crash)
Alive(p) == ~panicked /\ spc[p] \notin {"none", "done", "closed"}

\* where a goroutine continues when its call of disconnect() returns:
\* connectLoop returns (l.157-158), readPump's deferred function ends the
\* goroutine (l.197-201), Close returns (l.275-276), SendLog returns (l.262)
AfterDisconnect(p) ==
    IF p = LoopP THEN "done"
    ELSE IF p = CloserP THEN "closed"
    ELSE IF p[1] = "pump" THEN "done"
    ELSE "idle"

\* http_sender.go:150: the reconnect ticker delivers a tick (capacity 1)
ReconnectTick ==
    /\ Alive(LoopP)
    /\ ~reconnectTick
    /\ reconnectTick' = TRUE
    /\ UNCHANGED <<agentVars, viewVars, httpVars, configVars>>
    /\ UNCHANGED linesAtClose
    /\ UNCHANGED <<spc, conn, senderMu, senderCtxDone, urlValid, opened,
                   closedConns, pumpConn, emitLine, emitted, frames, dropped,
                   failedConns, panicked>>

\* http_sender.go:134: the parent context of the sender is cancelled
ParentCancel ==
    /\ ~panicked
    /\ ~senderCtxDone
    /\ senderCtxDone' = TRUE
    /\ UNCHANGED <<agentVars, viewVars, httpVars, configVars>>
    /\ UNCHANGED linesAtClose
    /\ UNCHANGED <<spc, conn, senderMu, reconnectTick, urlValid, opened,
                   closedConns, pumpConn, emitLine, emitted, frames, dropped,
                   failedConns, panicked>>

\* http_sender.go:273-275: Close() calls s.cancel() and then s.disconnect()
Close ==
    /\ ~panicked
    /\ spc[CloserP] = "idle"
    /\ senderCtxDone' = TRUE
    /\ spc' = [spc EXCEPT ![CloserP] = "disc_lock"]
    /\ UNCHANGED <<agentVars, viewVars, httpVars, configVars>>
    /\ UNCHANGED linesAtClose
    /\ UNCHANGED <<conn, senderMu, reconnectTick, urlValid, opened,
                   closedConns, pumpConn, emitLine, emitted, frames, dropped,
                   failedConns, panicked>>

\* http_sender.go:155-158: select takes the ctx.Done() case: disconnect(), return
LoopSelectDone ==
    /\ ~panicked
    /\ spc[LoopP] = "select"
    /\ senderCtxDone
    /\ spc' = [spc EXCEPT ![LoopP] = "disc_lock"]
    /\ UNCHANGED <<agentVars, viewVars, httpVars, configVars>>
    /\ UNCHANGED linesAtClose
    /\ UNCHANGED <<conn, senderMu, senderCtxDone, reconnectTick, urlValid,
                   opened, closedConns, pumpConn, emitLine, emitted, frames,
                   dropped, failedConns, panicked>>

\* http_sender.go:159-162: select takes the ticker case; s.conn is compared
\* with nil without holding s.mu (the read sees the value s.conn has at that
\* instant) and connect() is called when it is nil
LoopSelectTick ==
    /\ ~panicked
    /\ spc[LoopP] = "select"
    /\ reconnectTick
    /\ reconnectTick' = FALSE
    /\ spc' = [spc EXCEPT ![LoopP] = IF conn = 0 THEN "conn_lock" ELSE "select"]
    /\ UNCHANGED <<agentVars, viewVars, httpVars, configVars>>
    /\ UNCHANGED linesAtClose
    /\ UNCHANGED <<conn, senderMu, senderCtxDone, urlValid, opened,
                   closedConns, pumpConn, emitLine, emitted, frames, dropped,
                   failedConns, panicked>>

\* http_sender.go:169-183: connect() takes s.mu; it returns at once when
\* s.conn is set or the URL does not parse, and otherwise dials while it
\* holds s.mu
ConnectLock ==
    /\ ~panicked
    /\ spc[LoopP] = "conn_lock"
    /\ senderMu = NoProc
    /\ IF conn # 0 \/ ~urlValid
         THEN /\ spc' = [spc EXCEPT ![LoopP] = "select"]
              /\ UNCHANGED senderMu
         ELSE /\ spc' = [spc EXCEPT ![LoopP] = "dialing"]
              /\ senderMu' = LoopP
    /\ UNCHANGED <<agentVars, viewVars, httpVars, configVars>>
    /\ UNCHANGED linesAtClose
    /\ UNCHANGED <<conn, senderCtxDone, reconnectTick, urlValid, opened,
                   closedConns, pumpConn, emitLine, emitted, frames, dropped,
                   failedConns, panicked>>

\* http_sender.go:183-193: Dial returned a connection: s.conn = c, the
\* readPump of that connection is started, the deferred Unlock runs
DialSuccess ==
    /\ ~panicked
    /\ spc[LoopP] = "dialing"
    /\ opened < MaxConns
    /\ opened' = opened + 1
    /\ conn' = opened + 1
    /\ spc' = [spc EXCEPT ![LoopP] = "select", ![PumpP(opened + 1)] = "select"]
    /\ senderMu' = NoProc
    /\ UNCHANGED <<agentVars, viewVars, httpVars, configVars>>
    /\ UNCHANGED linesAtClose
    /\ UNCHANGED <<senderCtxDone, reconnectTick, urlValid, closedConns,
                   pumpConn, emitLine, emitted, frames, dropped, failedConns,
                   panicked>>

\* a connect() that ends the reconnect loop when Dial returns an error
DialFailureGivesUp ==
    /\ ~panicked
    /\ spc[LoopP] = "dialing"
    /\ spc' = [spc EXCEPT ![LoopP] = "done"]
    /\ senderMu' = NoProc
    /\ UNCHANGED <<agentVars, viewVars, httpVars, configVars>>
    /\ UNCHANGED linesAtClose
    /\ UNCHANGED <<conn, senderCtxDone, reconnectTick, urlValid, opened,
                   closedConns, pumpConn, emitLine, emitted, frames, dropped,
                   failedConns, panicked>>

\* http_sender.go:183-187: Dial returned an error; the deferred Unlock runs
DialFailure ==
    /\ ~panicked
    /\ spc[LoopP] = "dialing"
    /\ spc' = [spc EXCEPT ![LoopP] = "select"]
    /\ senderMu' = NoProc
    /\ UNCHANGED <<agentVars, viewVars, httpVars, configVars>>
    /\ UNCHANGED linesAtClose
    /\ UNCHANGED <<conn, senderCtxDone, reconnectTick, urlValid, opened,
                   closedConns, pumpConn, emitLine, emitted, frames, dropped,
                   failedConns, panicked>>

\* http_sender.go:204-206: readPump's select finds ctx.Done() ready and
\* returns into its deferred disconnect()
PumpSelectDone(h) ==
    /\ ~panicked
    /\ spc[PumpP(h)] = "select"
    /\ senderCtxDone
    /\ spc' = [spc EXCEPT ![PumpP(h)] = "disc_lock"]
    /\ UNCHANGED <<agentVars, viewVars, httpVars, configVars>>
    /\ UNCHANGED linesAtClose
    /\ UNCHANGED <<conn, senderMu, senderCtxDone, reconnectTick, urlValid,
                   opened, closedConns, pumpConn, emitLine, emitted, frames,
                   dropped, failedConns, panicked>>

\* http_sender.go:204-207: readPump's select finds ctx.Done() not ready and
\* takes the default case
PumpSelectDefault(h) ==
    /\ ~panicked
    /\ spc[PumpP(h)] = "select"
    /\ ~senderCtxDone
    /\ spc' = [spc EXCEPT ![PumpP(h)] = "deref"]
    /\ UNCHANGED <<agentVars, viewVars, httpVars, configVars>>
    /\ UNCHANGED linesAtClose
    /\ UNCHANGED <<conn, senderMu, senderCtxDone, reconnectTick, urlValid,
                   opened, closedConns, pumpConn, emitLine, emitted, frames,
                   dropped, failedConns, panicked>>

\* http_sender.go:210: s.conn.ReadMessage() is called on whatever s.conn
\* holds now, read without s.mu.  On a nil s.conn the call dereferences nil:
\* the goroutine panics and its deferred disconnect() runs before the
\* process dies
PumpRead(h) ==
    /\ ~panicked
    /\ spc[PumpP(h)] = "deref"
    /\ IF conn = 0
         THEN /\ spc' = [spc EXCEPT ![PumpP(h)] = "panic_disc_lock"]
              /\ UNCHANGED pumpConn
         ELSE /\ spc' = [spc EXCEPT ![PumpP(h)] = "reading"]
              /\ pumpConn' = [pumpConn EXCEPT ![h] = conn]
    /\ UNCHANGED <<agentVars, viewVars, httpVars, configVars>>
    /\ UNCHANGED linesAtClose
    /\ UNCHANGED <<conn, senderMu, senderCtxDone, reconnectTick, urlValid,
                   opened, closedConns, emitLine, emitted, frames, dropped,
                   failedConns, panicked>>

\* http_sender.go:210-217: ReadMessage returned an error (the peer closed or
\* reset the connection, or the connection was closed locally): return into
\* the deferred disconnect()
PumpReadError(h) ==
    /\ ~panicked
    /\ spc[PumpP(h)] = "reading"
    /\ spc' = [spc EXCEPT ![PumpP(h)] = "disc_lock"]
    /\ pumpConn' = [pumpConn EXCEPT ![h] = 0]
    /\ UNCHANGED <<agentVars, viewVars, httpVars, configVars>>
    /\ UNCHANGED linesAtClose
    /\ UNCHANGED <<conn, senderMu, senderCtxDone, reconnectTick, urlValid,
                   opened, closedConns, emitLine, emitted, frames, dropped,
                   failedConns, panicked>>

\* http_sender.go:210-218: ReadMessage returned a message of the peer (only a
\* connection that is not closed can deliver one); the loop goes round
PumpReadMessage(h) ==
    /\ ~panicked
    /\ spc[PumpP(h)] = "reading"
    /\ pumpConn[h] \notin closedConns
    /\ spc' = [spc EXCEPT ![PumpP(h)] = "select"]
    /\ pumpConn' = [pumpConn EXCEPT ![h] = 0]
    /\ UNCHANGED <<agentVars, viewVars, httpVars, configVars>>
    /\ UNCHANGED linesAtClose
    /\ UNCHANGED <<conn, senderMu, senderCtxDone, reconnectTick, urlValid,
                   opened, closedConns, emitLine, emitted, frames, dropped,
                   failedConns, panicked>>

\* a disconnect() that forgets the handle without closing the connection
DisconnectWithoutClose(p) ==
    /\ ~panicked
    /\ spc[p] \in {"disc_lock", "panic_disc_lock"}
    /\ senderMu = NoProc
    /\ conn' = 0
    /\ panicked' = (spc[p] = "panic_disc_lock")
    /\ spc' = [spc EXCEPT ![p] = AfterDisconnect(p)]
    /\ emitLine' = IF p[1] = "emit" THEN [emitLine EXCEPT ![p[2]] = 0] ELSE emitLine
    /\ linesAtClose' = IF p = CloserP THEN emitted ELSE linesAtClose
    /\ UNCHANGED <<agentVars, viewVars, httpVars, configVars>>
    /\ UNCHANGED <<senderMu, senderCtxDone, reconnectTick, urlValid, opened,
                   closedConns, pumpConn, emitted, frames, dropped, failedConns>>

\* http_sender.go:223-232: disconnect() called by goroutine p.  It needs
\* s.mu (a sync.Mutex is not reentrant: a caller that already holds s.mu
\* waits for itself), closes and clears s.conn when it is set, and unlocks.
\* When disconnect() returns into SendLog, SendLog's deferred Unlock releases
\* the lock SendLog took.
Disconnect(p) ==
    /\ ~panicked
    /\ spc[p] \in {"disc_lock", "panic_disc_lock"}
    /\ senderMu = NoProc
    /\ closedConns' = IF conn # 0 THEN closedConns \cup {conn} ELSE closedConns
    /\ conn' = 0
    /\ panicked' = (spc[p] = "panic_disc_lock")
    /\ spc' = [spc EXCEPT ![p] = AfterDisconnect(p)]
    /\ emitLine' = IF p[1] = "emit" THEN [emitLine EXCEPT ![p[2]] = 0] ELSE emitLine
    /\ linesAtClose' = IF p = CloserP THEN emitted ELSE linesAtClose
    /\ UNCHANGED <<agentVars, viewVars, httpVars, configVars>>
    /\ UNCHANGED <<senderMu, senderCtxDone, reconnectTick, urlValid, opened,
                   pumpConn, emitted, frames, dropped, failedConns>>

\* a caller invokes SendLog(service, message, level): http_sender.go:235-236
SendLogCall(e) ==
    /\ ~panicked
    /\ spc[EmitP(e)] = "idle"
    /\ emitted < MaxLines
    /\ emitted' = emitted + 1
    /\ emitLine' = [emitLine EXCEPT ![e] = emitted + 1]
    /\ spc' = [spc EXCEPT ![EmitP(e)] = "lock"]
    /\ UNCHANGED <<agentVars, viewVars, httpVars, configVars>>
    /\ UNCHANGED linesAtClose
    /\ UNCHANGED <<conn, senderMu, senderCtxDone, reconnectTick, urlValid,
                   opened, closedConns, pumpConn, frames, dropped, failedConns,
                   panicked>>

\* a SendLog that keeps a line it could not send and tries it again later
SendLogDisconnectedKeepsLine(e) ==
    /\ ~panicked
    /\ spc[EmitP(e)] = "lock"
    /\ senderMu = NoProc
    /\ conn = 0
    /\ emitLine[e] \notin dropped
    /\ dropped' = dropped \cup {emitLine[e]}
    /\ UNCHANGED <<agentVars, viewVars, httpVars, configVars>>
    /\ UNCHANGED linesAtClose
    /\ UNCHANGED <<spc, conn, senderMu, senderCtxDone, reconnectTick, urlValid,
                   opened, closedConns, pumpConn, emitLine, emitted, frames,
                   failedConns, panicked>>

\* http_sender.go:236-242: SendLog got s.mu and found s.conn == nil: it logs
\* at debug level and returns (the deferred Unlock runs)
SendLogDisconnected(e) ==
    /\ ~panicked
    /\ spc[EmitP(e)] = "lock"
    /\ senderMu = NoProc
    /\ conn = 0
    /\ dropped' = dropped \cup {emitLine[e]}
    /\ emitLine' = [emitLine EXCEPT ![e] = 0]
    /\ spc' = [spc EXCEPT ![EmitP(e)] = "idle"]
    /\ UNCHANGED <<agentVars, viewVars, httpVars, configVars>>
    /\ UNCHANGED linesAtClose
    /\ UNCHANGED <<conn, senderMu, senderCtxDone, reconnectTick, urlValid,
                   opened, closedConns, pumpConn, emitted, frames, failedConns,
                   panicked>>

\* http_sender.go:236-259: SendLog got s.mu, found a connection, serialised
\* the LogMessage (json.Marshal of a struct of strings and an int64 cannot
\* fail) and called WriteMessage on s.conn, holding s.mu
SendLogConnected(e) ==
    /\ ~panicked
    /\ spc[EmitP(e)] = "lock"
    /\ senderMu = NoProc
    /\ conn # 0
    /\ senderMu' = EmitP(e)
    /\ spc' = [spc EXCEPT ![EmitP(e)] = "write"]
    /\ UNCHANGED <<agentVars, viewVars, httpVars, configVars>>
    /\ UNCHANGED linesAtClose
    /\ UNCHANGED <<conn, senderCtxDone, reconnectTick, urlValid, opened,
                   closedConns, pumpConn, emitLine, emitted, frames, dropped,
                   failedConns, panicked>>

\* http_sender.go:259-270: WriteMessage succeeded; SendLog returns and the
\* deferred Unlock runs
WriteSuccess(e) ==
    /\ ~panicked
    /\ spc[EmitP(e)] = "write"
    /\ frames' = frames \cup {<<emitLine[e], conn>>}
    /\ emitLine' = [emitLine EXCEPT ![e] = 0]
    /\ senderMu' = NoProc
    /\ spc' = [spc EXCEPT ![EmitP(e)] = "idle"]
    /\ UNCHANGED <<agentVars, viewVars, httpVars, configVars>>
    /\ UNCHANGED linesAtClose
    /\ UNCHANGED <<conn, senderCtxDone, reconnectTick, urlValid, opened,
                   closedConns, pumpConn, emitted, dropped, failedConns,
                   panicked>>

\* http_sender.go:259-262: WriteMessage returned an error; SendLog calls
\* s.disconnect() while it still holds s.mu
WriteFailure(e) ==
    /\ ~panicked
    /\ spc[EmitP(e)] = "write"
    /\ failedConns' = failedConns \cup {conn}
    /\ spc' = [spc EXCEPT ![EmitP(e)] = "disc_lock"]
    /\ UNCHANGED <<agentVars, viewVars, httpVars, configVars>>
    /\ UNCHANGED linesAtClose
    /\ UNCHANGED <<conn, senderMu, senderCtxDone, reconnectTick, urlValid,
                   opened, closedConns, pumpConn, emitLine, emitted, frames,
                   dropped, panicked>>

\* one step of the connectLoop goroutine
LoopStep ==
    \/ LoopSelectDone
    \/ LoopSelectTick
    \/ ConnectLock
    \/ DialSuccess
    \/ DialFailure
    \/ Disconnect(LoopP)

\* one step of the readPump goroutine of connection h
PumpStep(h) ==
    \/ PumpSelectDone(h)
    \/ PumpSelectDefault(h)
    \/ PumpRead(h)
    \/ PumpReadError(h)
    \/ PumpReadMessage(h)
    \/ Disconnect(PumpP(h))

\* one step of a SendLog call of emitter e, once it is made
EmitStep(e) ==
    \/ SendLogDisconnected(e)
    \/ SendLogConnected(e)
    \/ WriteSuccess(e)
    \/ WriteFailure(e)
    \/ Disconnect(EmitP(e))

SenderNext ==
    \/ ReconnectTick
    \/ ParentCancel
    \/ Close
    \/ LoopSelectDone
    \/ LoopSelectTick
    \/ ConnectLock
    \/ DialSuccess
    \/ DialFailure
    \/ \E h \in Conns : PumpSelectDone(h)
    \/ \E h \in Conns : PumpSelectDefault(h)
    \/ \E h \in Conns : PumpRead(h)
    \/ \E h \in Conns : PumpReadError(h)
    \/ \E h \in Conns : PumpReadMessage(h)
    \/ \E p \in SenderProcs : Disconnect(p)
    \/ \E e \in Emitters : SendLogCall(e)
    \/ \E e \in Emitters : SendLogDisconnected(e)
    \/ \E e \in Emitters : SendLogConnected(e)
    \/ \E e \in Emitters : WriteSuccess(e)
    \/ \E e \in Emitters : WriteFailure(e)

\* a sender constructed for either kind of URL, next to an agent that has
\* not started its collectors
SenderStart == AgentInit /\ SenderInit /\ ViewerInit /\ HttpInit /\ ConfigIdle

SenderSpec == SenderStart /\ [][SenderNext]_vars

\* Scheduling of Part II: every goroutine that is able to take a step again
\* and again takes one (a goroutine waiting for s.mu gets it when it is
\* released often enough: sync.Mutex hands the lock to a starving waiter);
\* Dial, ReadMessage and WriteMessage return; and a select whose ctx.Done()
\* case stays ready takes that case at some point.
SenderFairness ==
    /\ SF_vars(LoopStep)
    /\ SF_vars(LoopSelectDone)
    /\ SF_vars(Disconnect(CloserP))
    /\ \A h \in Conns : SF_vars(PumpStep(h))
    /\ \A e \in Emitters : SF_vars(EmitStep(e))

SenderFairSpec == SenderSpec /\ SenderFairness

\* Scheduling of Part II with an endpoint that accepts connections: the
\* reconnect ticker keeps delivering ticks (http_sender.go:150) and a Dial
\* that is tried again and again succeeds at some point (l.183)
SenderReconnectFairness ==
    /\ SenderFairness
    /\ WF_vars(ReconnectTick)
    /\ SF_vars(DialSuccess)

SenderReconnectSpec == SenderSpec /\ SenderReconnectFairness

(***************************************************************************)
(* Part III : the /api/current_metrics handler (main.go:153-164), serving  *)
(* one request at a time next to the collector goroutines                  *)
(***************************************************************************)
\* the reader name of the handler goroutine in mu
Viewer == "viewer"

\* main.go:153: a request arrives and net/http calls the handler
Request ==
    /\ viewPc = "idle"
    /\ viewPc' = "rlock"
    /\ UNCHANGED <<report, response>>
    /\ UNCHANGED <<agentVars, senderVars, httpVars, configVars>>

\* main.go:155: mu.RLock()
ViewRLock ==
    /\ viewPc = "rlock"
    /\ CanRLock(mu)
    /\ mu' = [mu EXCEPT !.r = @ \cup {Viewer}]
    /\ viewPc' = "read"
    /\ UNCHANGED <<report, response>>
    /\ UNCHANGED <<senderVars, httpVars, configVars>>
    /\ UNCHANGED <<mainPc, cancelled, pc, tickPending, collectedMetrics,
                   fullReport, currentCollectedData, uiDataMutex,
                   latestAgentReport, wg, metricsCollected, metricsSent,
                   collectorStatus, collectedOK, constructed>>

\* main.go:156-157: report := latestAgentReport; mu.RUnlock()
ViewRead ==
    /\ viewPc = "read"
    /\ report' = latestAgentReport
    /\ mu' = [mu EXCEPT !.r = @ \ {Viewer}]
    /\ viewPc' = "respond"
    /\ UNCHANGED response
    /\ UNCHANGED <<senderVars, httpVars, configVars>>
    /\ UNCHANGED <<mainPc, cancelled, pc, tickPending, collectedMetrics,
                   fullReport, currentCollectedData, uiDataMutex,
                   latestAgentReport, wg, metricsCollected, metricsSent,
                   collectorStatus, collectedOK, constructed>>

\* a handler that sends the marker whenever the report has no system metrics
RespondMarkerWithoutSystem ==
    /\ viewPc = "respond"
    /\ response' = IF report.system = 0 THEN ErrorResponse
                                          ELSE ReportResponse(report)
    /\ report' = NilReport
    /\ viewPc' = "idle"
    /\ UNCHANGED <<agentVars, senderVars, httpVars, configVars>>

\* main.go:159-163: a nil report is answered with {"error": "No metrics
\* available yet."}, any other with the report encoded as JSON
Respond ==
    /\ viewPc = "respond"
    /\ response' = IF report = NilReport THEN ErrorResponse
                                          ELSE ReportResponse(report)
    /\ report' = NilReport
    /\ viewPc' = "idle"
    /\ UNCHANGED <<agentVars, senderVars, httpVars, configVars>>

\* one step of the handler
Handler ==
    \/ ViewRLock
    \/ ViewRead
    \/ Respond

ViewTick(c) == TickWithin(c, MaxViewTicks)

ViewNext ==
    \/ \E c \in Names : ViewTick(c)
    \/ AgentStep
    \/ Request
    \/ Handler

ViewSpec == Init /\ [][ViewNext]_vars

(***************************************************************************)
(* Part IV : HTTPSender.Send (sender/http_sender.go:71-94; the earlier     *)
(* version of lines 25-44 has the same steps).  The collector goroutines   *)
(* share one HTTPSender, so there is one caller per collector.             *)
(***************************************************************************)
\* the status codes the server answers with
StatusCodes == {199, 200, 204, 299, 300, 404, 500}

\* a status test that lets the first redirect code through
StatusOKUpTo300(code) == code >= 200 /\ code <= 300

\* http_sender.go:89: resp.StatusCode >= 200 && resp.StatusCode < 300
StatusOK(code) == code >= 200 /\ code < 300

\* http_sender.go:71: a collector goroutine calls Send(data)
SendCall(c) ==
    /\ hpc[c] \in {"idle", "returned"}
    /\ hpc' = [hpc EXCEPT ![c] = "marshal"]
    /\ resp' = [resp EXCEPT ![c] = 0]
    /\ err' = [err EXCEPT ![c] = "pending"]
    /\ UNCHANGED <<agentVars, senderVars, viewVars, configVars>>

\* http_sender.go:72-75: json.Marshal(data); an error is returned wrapped
Marshal(c) ==
    /\ hpc[c] = "marshal"
    /\ \E ok \in BOOLEAN :
          IF ok THEN /\ hpc' = [hpc EXCEPT ![c] = "newrequest"]
                     /\ UNCHANGED err
                ELSE /\ hpc' = [hpc EXCEPT ![c] = "returned"]
                     /\ err' = [err EXCEPT ![c] = "marshal"]
    /\ UNCHANGED resp
    /\ UNCHANGED <<agentVars, senderVars, viewVars, configVars>>

\* http_sender.go:77-81: http.NewRequest("POST", s.url, ...); it fails on a
\* URL that does not parse
NewRequest(c) ==
    /\ hpc[c] = "newrequest"
    /\ \E ok \in BOOLEAN :
          IF ok THEN /\ hpc' = [hpc EXCEPT ![c] = "do"]
                     /\ UNCHANGED err
                ELSE /\ hpc' = [hpc EXCEPT ![c] = "returned"]
                     /\ err' = [err EXCEPT ![c] = "request"]
    /\ UNCHANGED resp
    /\ UNCHANGED <<agentVars, senderVars, viewVars, configVars>>

\* http_sender.go:83-86: s.client.Do(req) fails (no connection, timeout of
\* 10 s, ...): no response, the error is returned wrapped
DoError(c) ==
    /\ hpc[c] = "do"
    /\ hpc' = [hpc EXCEPT ![c] = "returned"]
    /\ err' = [err EXCEPT ![c] = "transport"]
    /\ UNCHANGED resp
    /\ UNCHANGED <<agentVars, senderVars, viewVars, configVars>>

\* http_sender.go:83-87: s.client.Do(req) returns the server's response
DoResponse(c) ==
    /\ hpc[c] = "do"
    /\ \E code \in StatusCodes : resp' = [resp EXCEPT ![c] = code]
    /\ hpc' = [hpc EXCEPT ![c] = "status"]
    /\ UNCHANGED err
    /\ UNCHANGED <<agentVars, senderVars, viewVars, configVars>>

\* http_sender.go:89-93: nil for a 2xx status, an error for any other
CheckStatus(c) ==
    /\ hpc[c] = "status"
    /\ err' = [err EXCEPT ![c] = IF StatusOK(resp[c]) THEN "nil" ELSE "status"]
    /\ hpc' = [hpc EXCEPT ![c] = "returned"]
    /\ UNCHANGED resp
    /\ UNCHANGED <<agentVars, senderVars, viewVars, configVars>>

\* one step of a Send call of the goroutine of c
Send(c) ==
    \/ Marshal(c)
    \/ NewRequest(c)
    \/ DoError(c)
    \/ DoResponse(c)
    \/ CheckStatus(c)

HttpNext ==
    \/ \E c \in Names : SendCall(c)
    \/ \E c \in Names : Send(c)

HttpSpec == Init /\ [][HttpNext]_vars

(***************************************************************************)
(* Part V : LoadConfig, SaveConfig and the collectors' intervals           *)
(***************************************************************************)
\* time.Duration is a signed 64-bit count of nanoseconds and time.Second is
\* 10^9 of them, so seconds * time.Second wraps round above about 9.2 * 10^9
\* seconds.  TLC's integers have 32 bits: the model keeps the same
\* two's complement arithmetic at the width DurationBits with Second units to
\* the second, so that a very long interval (40 s here) wraps round too.
DurationBits == 16
Second == 1024

\* the value a signed integer of DurationBits bits holds after an overflow
Wrap(n) ==
    LET m == n % (2 ^ DurationBits)
    IN  IF m >= 2 ^ (DurationBits - 1) THEN m - 2 ^ DurationBits ELSE m

\* part_005:40, part_003:163, 308: time.Duration(seconds) * time.Second
ToDuration(seconds) == Wrap(seconds * Second)

\* config.go:167, 194, 263: uuid.New().String(); the n-th call of LoadConfig
\* draws the n-th identifier
NewUUID(n) == <<"uuid-1", "uuid-2", "uuid-3", "uuid-4">>[n]

\* a call of LoadConfig(filePath): config.go:155-157
LoadCall ==
    /\ cpc \in {"idle", "returned", "built"}
    /\ loads < MaxLoads
    /\ loads' = loads + 1
    /\ cfg' = ZeroConfig
    /\ configModified' = FALSE
    /\ loadErr' = "pending"
    /\ data' = NoFile
    /\ interval' = [c \in Names |-> 0]
    /\ cpc' = "read"
    /\ UNCHANGED <<file, prevID>>
    /\ UNCHANGED <<agentVars, senderVars, viewVars, httpVars>>

\* config.go:163-181: the configuration LoadConfig makes up when the file
\* does not exist
DefaultConfig(id) ==
    [AgentName |-> "default-agent", AgentID |-> id, IntervalSeconds |-> 5,
     TargetURL |-> "http://localhost:4003/metrics", LogLevel |-> "info",
     MySQL |-> DefaultPlugin, Nginx |-> DefaultPlugin]

\* config.go:159-186: os.ReadFile; a missing file gives the defaults with a
\* fresh AgentID, any other read error is returned
ReadFile ==
    /\ cpc = "read"
    /\ IF file.kind = "missing"
         THEN /\ cfg' = DefaultConfig(NewUUID(loads))
              /\ configModified' = TRUE
              /\ cpc' = "validate"
              /\ UNCHANGED <<data, loadErr>>
         ELSE IF file.kind = "unreadable"
         THEN /\ loadErr' = "read"
              /\ cpc' = "returned"
              /\ UNCHANGED <<data, cfg, configModified>>
         ELSE /\ data' = file
              /\ cpc' = "parse"
              /\ UNCHANGED <<cfg, configModified, loadErr>>
    /\ UNCHANGED <<file, loads, prevID, interval>>
    /\ UNCHANGED <<agentVars, senderVars, viewVars, httpVars>>

\* config.go:187-190: yaml.Unmarshal(data, cfg).  The comment SaveConfig puts
\* behind the agent_id value is not part of the value
Unmarshal ==
    /\ cpc = "parse"
    /\ IF data.kind = "yaml"
         THEN /\ cfg' = data.body
              /\ cpc' = "fill"
              /\ UNCHANGED loadErr
         ELSE /\ loadErr' = "parse"
              /\ cpc' = "returned"
              /\ UNCHANGED cfg
    /\ UNCHANGED <<file, data, configModified, loads, prevID, interval>>
    /\ UNCHANGED <<agentVars, senderVars, viewVars, httpVars>>

\* config.go:206-219, 221-234: a plugin section after LoadConfig went over it:
\* a missing section becomes the disabled default, an enabled one without
\* address is an error, an enabled one without positive interval gets 10
FillPlugin(p) ==
    IF ~p.set THEN [plugin |-> DefaultPlugin, modified |-> FALSE, ok |-> TRUE]
    ELSE IF p.Enabled /\ p.Addr = ""
    THEN [plugin |-> p, modified |-> FALSE, ok |-> FALSE]
    ELSE IF p.Enabled /\ p.CollectionIntervalSeconds <= 0
    THEN [plugin |-> [p EXCEPT !.CollectionIntervalSeconds = 10],
          modified |-> TRUE, ok |-> TRUE]
    ELSE [plugin |-> p, modified |-> FALSE, ok |-> TRUE]

\* config.go:192-234: the values filled in after parsing, in program order:
\* AgentID, LogLevel, the mysql section, the nginx section
FillDefaults ==
    /\ cpc = "fill"
    /\ LET withID == IF cfg.AgentID = ""
                       THEN [cfg EXCEPT !.AgentID = NewUUID(loads)] ELSE cfg
           withLevel == IF cfg.LogLevel = ""
                          THEN [withID EXCEPT !.LogLevel = "info"] ELSE withID
           my == FillPlugin(cfg.MySQL)
           ng == FillPlugin(cfg.Nginx)
       IN  IF ~my.ok
             THEN /\ loadErr' = "mysql_dsn"
                  /\ cpc' = "returned"
                  /\ cfg' = withLevel
                  /\ configModified' = (cfg.AgentID = "" \/ cfg.LogLevel = "")
             ELSE IF ~ng.ok
             THEN /\ loadErr' = "nginx_url"
                  /\ cpc' = "returned"
                  /\ cfg' = [withLevel EXCEPT !.MySQL = my.plugin]
                  /\ configModified' = (cfg.AgentID = "" \/ cfg.LogLevel = ""
                                          \/ my.modified)
             ELSE /\ cfg' = [withLevel EXCEPT !.MySQL = my.plugin,
                                              !.Nginx = ng.plugin]
                  /\ configModified' = (cfg.AgentID = "" \/ cfg.LogLevel = ""
                                          \/ my.modified \/ ng.modified)
                  /\ cpc' = "validate"
                  /\ UNCHANGED loadErr
    /\ UNCHANGED <<file, data, loads, prevID, interval>>
    /\ UNCHANGED <<agentVars, senderVars, viewVars, httpVars>>

\* config.go:237-256: the three checks; a configuration that passes and was
\* not modified is returned as it is, a modified one is saved first
Validate ==
    /\ cpc = "validate"
    /\ IF cfg.AgentName = ""
         THEN loadErr' = "agent_name" /\ cpc' = "returned" /\ UNCHANGED prevID
         ELSE IF cfg.IntervalSeconds <= 0
         THEN loadErr' = "interval" /\ cpc' = "returned" /\ UNCHANGED prevID
         ELSE IF cfg.TargetURL = ""
         THEN loadErr' = "target_url" /\ cpc' = "returned" /\ UNCHANGED prevID
         ELSE IF configModified
         THEN cpc' = "save" /\ UNCHANGED <<loadErr, prevID>>
         ELSE loadErr' = "nil" /\ cpc' = "returned" /\ prevID' = cfg.AgentID
    /\ UNCHANGED <<file, data, cfg, configModified, loads, interval>>
    /\ UNCHANGED <<agentVars, senderVars, viewVars, httpVars>>

\* what can become of the file during SaveConfig: the first WriteFile fails
\* (nothing or a part is written), the ReadFile or the second WriteFile fails
\* after the YAML was written, or all three calls succeed
SaveOutcomes ==
    {"write_error", "write_torn", "reread_error", "rewrite_error",
     "rewrite_torn", "ok"}

\* config.go:260-297 called from l.249-254: SaveConfig fills an empty AgentID,
\* writes the YAML of cfg, reads it back and writes it again with a comment
\* behind the agent_id line; any error makes LoadConfig return an error
SaveConfig ==
    /\ cpc = "save"
    /\ \E outcome \in SaveOutcomes :
          LET saved == IF cfg.AgentID = ""
                         THEN [cfg EXCEPT !.AgentID = NewUUID(loads + 1)] ELSE cfg
          IN  /\ cfg' = saved
              /\ file' =
                   IF outcome = "write_error" THEN file
                   ELSE IF outcome \in {"write_torn", "rewrite_torn"}
                   THEN [kind |-> "garbage", body |-> ZeroConfig, comment |-> FALSE]
                   ELSE [kind |-> "yaml", body |-> saved,
                         comment |-> (outcome = "ok")]
              /\ loadErr' = IF outcome = "ok" THEN "nil" ELSE "save"
              /\ prevID' = IF outcome = "ok" THEN saved.AgentID ELSE prevID
    /\ cpc' = "returned"
    /\ UNCHANGED <<data, configModified, loads, interval>>
    /\ UNCHANGED <<agentVars, senderVars, viewVars, httpVars>>

\* the collectors main() builds from the loaded configuration
\* (main.go:176, 181-186, 193-199) and the interval each constructor computes
\* for its ticker (part_005:40, part_003:163, 308; main.go:224)
NewCollectors ==
    /\ cpc = "returned"
    /\ loadErr = "nil"
    /\ interval' =
         [system |-> ToDuration(cfg.IntervalSeconds),
          mysql  |-> IF cfg.MySQL.set /\ cfg.MySQL.Enabled
                       THEN ToDuration(cfg.MySQL.CollectionIntervalSeconds) ELSE 0,
          nginx  |-> IF cfg.Nginx.set /\ cfg.Nginx.Enabled
                       THEN ToDuration(cfg.Nginx.CollectionIntervalSeconds) ELSE 0]
    /\ cpc' = "built"
    /\ UNCHANGED <<file, data, cfg, configModified, loadErr, loads, prevID>>
    /\ UNCHANGED <<agentVars, senderVars, viewVars, httpVars>>

\* one step of LoadConfig (config.go:155-257)
LoadConfig ==
    \/ ReadFile
    \/ Unmarshal
    \/ FillDefaults
    \/ Validate
    \/ SaveConfig

ConfigNext ==
    \/ LoadCall
    \/ ReadFile
    \/ Unmarshal
    \/ FillDefaults
    \/ Validate
    \/ SaveConfig
    \/ NewCollectors

\* LoadConfig called on any of the files, next to an agent that has not
\* started
ConfigStart == AgentInit /\ SenderIdle /\ ViewerInit /\ HttpInit /\ ConfigInit

ConfigSpec == ConfigStart /\ [][ConfigNext]_vars

(***************************************************************************)
(* Part I : claims                                                         *)
(***************************************************************************)
\* the goroutine of c is inside the write-locked region of main.go:249-251
InWriteSection(c) == pc[c] \in {"write", "unlock"}

\* the goroutine of c is inside the read-locked region of main.go:263-274
InReadSection(c) == pc[c] \in {"rd_system", "rd_mysql", "rd_nginx", "runlock"}

\* the metrics fields of a report, as a map keyed like currentCollectedData
ReportEntries(r) == [d \in Names |-> r[d]]

\* C1: a failed sample never changes Shared Report State.  From the moment the
\* goroutine of c waits at its select until Collect() has returned an error and
\* the goroutine is back at the select, no step of any goroutine changes the
\* entry of c, and the steps of the failed tick leave the whole map and the
\* published latest report as they were.
C1_FailedSampleKeepsState ==
    [][\A c \in Names :
          /\ pc[c] \in {"select", "collecting"}
                => currentCollectedData'[c] = currentCollectedData[c]
          /\ (pc[c] = "collecting" /\ pc'[c] = "select")
                => /\ currentCollectedData' = currentCollectedData
                   /\ latestAgentReport' = latestAgentReport]_vars

\* C1 witness: system's second Collect() failed after its first sample had
\* been stored and published; the stored sample is still sample 1
C1_Witness ==
    /\ pc["system"] = "select"
    /\ metricsCollected["system"] = 2
    /\ collectorStatus["system"] = 0
    /\ currentCollectedData["system"] = 1
    /\ latestAgentReport.system = 1

\* C2: a report whose full-map read is complete (the goroutine still holds the
\* read lock) carries an entry for every collector that has completed a state
\* update: with the entries of two collectors A and B in the map, the report
\* has both, never fewer.
C2_ReportHasBothEntries ==
    \A c \in Names, a \in Names, b \in Names :
        (/\ pc[c] = "runlock"
         /\ currentCollectedData[a] # 0
         /\ currentCollectedData[b] # 0)
            => fullReport[c][a] # 0 /\ fullReport[c][b] # 0

\* C2 witness: mysql finished its read after system and mysql both stored a
\* sample, and its report has both
C2_Witness ==
    /\ pc["mysql"] = "runlock"
    /\ fullReport["mysql"].system # 0
    /\ fullReport["mysql"].mysql # 0

\* C3: a state update of collector X writes X's entry and nothing else: any
\* step that changes an entry of the map is the write of the goroutine that
\* owns the entry, it stores the sample that goroutine just collected, and it
\* leaves every other entry as it was.
C3_WriteOnlyOwnEntry ==
    [][\A c \in Names :
          (pc[c] = "write" /\ pc'[c] = "unlock")
             => /\ currentCollectedData'[c] = collectedMetrics[c]
                /\ \A d \in Names \ {c} :
                      currentCollectedData'[d] = currentCollectedData[d]]_vars

\* C3 witness: the report built after the second system tick carries the new
\* system sample (2) and the unchanged mysql sample (1)
C3_Witness ==
    /\ pc["system"] = "runlock"
    /\ fullReport["system"].system = 2
    /\ fullReport["system"].mysql = 1
    /\ currentCollectedData["mysql"] = 1

\* C4: no goroutine is inside the write-locked region while another one is
\* inside the write-locked or the read-locked region, and a report whose read
\* is complete equals the contents of the map in the current state.
C4_ConsistentRead ==
    /\ \A c \in Names, d \in Names :
          (c # d /\ InWriteSection(c))
             => ~InWriteSection(d) /\ ~InReadSection(d)
    /\ \A c \in Names :
          pc[c] = "runlock" => ReportEntries(fullReport[c]) = currentCollectedData

\* C4 witness: one goroutine holds the write lock while another has collected
\* and waits to take it, and a third one waits for the read lock
C4_Witness ==
    \E c \in Names, d \in Names, e \in Names :
        pc[c] = "write" /\ pc[d] = "lock" /\ pc[e] = "rlock"

\* C5: wg.Wait() has returned only in states where every started collector
\* goroutine has left its loop.
C5_WaitOnlyAfterAllExited ==
    mainPc = "complete" => \A c \in Names : ~Running(c)

\* C5 witness: shutdown completed with two goroutines that both ran a cycle
C5_Witness ==
    /\ mainPc = "complete"
    /\ pc["system"] = "done" /\ pc["mysql"] = "done"
    /\ metricsCollected["system"] > 0 /\ metricsCollected["mysql"] > 0

\* C6: once the context is cancelled, every collector goroutine eventually
\* exits and wg.Wait() eventually returns.
C6_CancelLeadsToShutdown ==
    cancelled ~> (mainPc = "complete" /\ \A c \in Names : ~Running(c))

\* C6 witness: all three collectors were running, the context was cancelled
\* while one of them was delivering, and shutdown completed
C6_Witness ==
    /\ cancelled /\ mainPc = "complete"
    /\ \A c \in Names : pc[c] = "done"
    /\ metricsSent["success"] + metricsSent["failure"] > 0

\* C7: after the context is cancelled no collector goroutine takes the tick
\* case of its select.
C7_NoSampleAfterCancel ==
    [][\A c \in Names :
          (cancelled /\ pc[c] = "select") => pc'[c] # "collecting"]_vars

\* C17: the step by which a failed Send returns changes nothing but the
\* failure counter: the goroutine is back at its select, the map, the
\* published report, both mutexes, the pending ticks and every other
\* goroutine are as they were, so the next tick is served like any other.
C17_DeliveryFailureOnlyCounts ==
    [][\A c \in Names :
          (pc[c] = "send" /\ pc'[c] # "send"
              /\ metricsSent'["success"] = metricsSent["success"])
             => /\ pc'[c] = "select"
                /\ metricsSent'["failure"] = metricsSent["failure"] + 1
                /\ currentCollectedData' = currentCollectedData
                /\ latestAgentReport' = latestAgentReport
                /\ uiDataMutex' = uiDataMutex /\ mu' = mu
                /\ tickPending' = tickPending /\ cancelled' = cancelled
                /\ metricsCollected' = metricsCollected
                /\ collectorStatus' = collectorStatus
                /\ wg' = wg /\ mainPc' = mainPc
                /\ \A d \in Names \ {c} : pc'[d] = pc[d]]_vars

\* C17 witness: system's first delivery failed; its next tick was sampled,
\* stored, published and is being delivered
C17_Witness ==
    /\ metricsSent["failure"] = 1 /\ metricsSent["success"] = 0
    /\ metricsCollected = [c \in Names |-> IF c = "system" THEN 2 ELSE 0]
    /\ pc["system"] = "send"
    /\ currentCollectedData["system"] = 2
    /\ latestAgentReport.system = 2

\* the goroutine of c holds a sample that is on its way to Send
\* (main.go:249-279: state update, report, publish)
InCycle(c) ==
    pc[c] \in {"lock", "write", "unlock", "rlock", "rd_system", "rd_mysql",
               "rd_nginx", "runlock", "mu_lock", "publish"}

\* the calls of httpSender.Send made so far: those that returned (each is
\* counted once in agent_metrics_sent_total) and those in flight
SendCalls ==
    metricsSent["success"] + metricsSent["failure"]
        + Cardinality({c \in Names : pc[c] = "send"})

\* C18: one delivery attempt per successful collection and none per failed
\* one.  The Send calls made so far are as many as the successful Collect()
\* calls that have reached the send step; a Send call is made only by a
\* goroutine that has just published the report of its sample; when Send
\* returns, whatever the outcome, the goroutine is back at its select (no
\* retry, nothing queued); and a failed Collect() makes no Send call.
C18_OneSendPerSuccessfulCollect ==
    /\ [](SendCalls + Cardinality({c \in Names : InCycle(c)}) = collectedOK)
    /\ [][\A c \in Names :
             /\ (pc'[c] = "send" /\ pc[c] # "send") => pc[c] = "publish"
             /\ (pc[c] = "send" /\ pc'[c] # "send")
                   => pc'[c] = "select" /\ SendCalls' = SendCalls
             /\ (pc[c] = "collecting" /\ pc'[c] = "select")
                   => SendCalls' = SendCalls]_vars

\* C18 witness: three Collect() calls, one failed; the two samples led to one
\* failed and one successful delivery and nothing is in flight
C18_Witness ==
    /\ collectedOK = 2
    /\ metricsCollected["system"] + metricsCollected["mysql"]
                                  + metricsCollected["nginx"] = 3
    /\ metricsSent["failure"] = 1 /\ metricsSent["success"] = 1
    /\ \A c \in Names : pc[c] \in {"none", "select"}

\* C21: once startup is over, a collector whose constructor returned an error
\* has no goroutine, no ticker and no sample, ever, and every collector that
\* was constructed has its goroutine: main() is past startup whatever the
\* constructors returned.
C21_FailedAdapterExcluded ==
    mainPc # "start" =>
        \A c \in Names :
            /\ constructed[c] = "error"
                  => /\ pc[c] = "none" /\ ~tickPending[c]
                     /\ metricsCollected[c] = 0
                     /\ currentCollectedData[c] = 0
            /\ constructed[c] = "ok" => pc[c] # "none"

\* C21 witness: the MySQL constructor failed; system and nginx have both
\* been sampled
C21_Witness ==
    /\ constructed["mysql"] = "error" /\ constructed["nginx"] = "ok"
    /\ pc["mysql"] = "none"
    /\ metricsCollected["system"] > 0 /\ metricsCollected["nginx"] > 0

\* the contents of the slice activeCollectors once it is built
ActiveSet == {c \in Names : constructed[c] = "ok"}

\* C22: once startup is over, the collectors that have a goroutine are
\* exactly the active ones, and the WaitGroup, which counts one per goroutine
\* started and not yet returned, equals the number of collectors whose
\* goroutine is running: one goroutine per active collector.
C22_OneTaskPerActiveAdapter ==
    mainPc # "start" =>
        /\ {c \in Names : pc[c] # "none"} = ActiveSet
        /\ wg = Cardinality({c \in Names : Running(c)})
        /\ wg + Cardinality({c \in Names : pc[c] = "done"})
               = Cardinality(ActiveSet)

\* C22 witness: three active collectors, three goroutines, each has sampled
C22_Witness ==
    /\ ActiveSet = Names
    /\ wg = 3
    /\ \A c \in Names : Running(c) /\ metricsCollected[c] = 1

\* C27: the steps of one tick come in the order sample, state update,
\* full-map read, publish, delivery.  A task that updates the state has its
\* sample; from the update to the end of the delivery the state holds that
\* sample under the task's name; a task that is past its read has the sample
\* in its report; a task enters the delivery only from the publish, which
\* makes its report the latest report; and the return of the delivery,
\* success or failure, leaves the latest report as it is.
C27_TickStepsInOrder ==
    /\ [](\A c \in Names :
            /\ pc[c] = "write" => collectedMetrics[c] # 0
            /\ pc[c] \in {"unlock", "rlock", "rd_system", "rd_mysql",
                           "rd_nginx", "runlock", "mu_lock", "publish", "send"}
                  => /\ collectedMetrics[c] # 0
                     /\ currentCollectedData[c] = collectedMetrics[c]
            /\ pc[c] \in {"mu_lock", "publish", "send"}
                  => fullReport[c][c] = collectedMetrics[c]
            /\ pc[c] = "send" => latestAgentReport # NilReport)
    /\ [][\A c \in Names :
            /\ (pc[c] # "send" /\ pc'[c] = "send")
                  => /\ pc[c] = "publish"
                     /\ latestAgentReport' = fullReport[c]
            /\ (pc[c] = "send" /\ pc'[c] # "send")
                  => /\ pc'[c] = "select"
                     /\ latestAgentReport' = latestAgentReport]_vars

\* C27 witness: mysql is in its delivery with its own report published, which
\* holds the samples of mysql and of system, after an earlier delivery failed
C27_Witness ==
    /\ pc["mysql"] = "send"
    /\ metricsSent["failure"] = 1
    /\ latestAgentReport = fullReport["mysql"]
    /\ latestAgentReport["mysql"] = collectedMetrics["mysql"]
    /\ latestAgentReport["system"] # 0

\* C28: from a task's write of its sample until that task has read the whole
\* map for its report, no step changes the map (no other task's update falls
\* in between).
C28_NoUpdateBetweenWriteAndRead ==
    [][\A c \in Names :
          pc[c] \in {"unlock", "rlock", "rd_system", "rd_mysql", "rd_nginx"}
             => currentCollectedData' = currentCollectedData]_vars

\* C30: the step that completes a collection attempt of an adapter sets its
\* status gauge to 1 when the attempt succeeded and to 0 when it failed, and
\* no other step changes the gauge; the gauge is 1 only for an adapter that
\* has had a success (its sample is in the state or on its way there); and
\* the gauge of an adapter whose construction failed is 0.
C30_GaugeFollowsLastAttempt ==
    /\ [](\A c \in Names :
            /\ collectorStatus[c] \in {0, 1}
            /\ collectorStatus[c] = 1
                  => currentCollectedData[c] # 0 \/ collectedMetrics[c] # 0
            /\ constructed[c] = "error" => collectorStatus[c] = 0)
    /\ [][\A c \in Names :
            IF metricsCollected'[c] # metricsCollected[c]
              THEN collectorStatus'[c] = IF collectedOK' # collectedOK THEN 1 ELSE 0
              ELSE collectorStatus'[c] = collectorStatus[c]]_vars

\* C30 witness: mysql could not be constructed and its gauge is 0; system
\* succeeded and then failed, its gauge is 0 with its sample still in the
\* state; nginx succeeded and its gauge is 1
C30_Witness ==
    /\ constructed["mysql"] = "error" /\ collectorStatus["mysql"] = 0
    /\ metricsCollected["system"] = 2
    /\ currentCollectedData["system"] = 1
    /\ collectorStatus["system"] = 0
    /\ metricsCollected["nginx"] = 1 /\ collectorStatus["nginx"] = 1

\* C31: a task ends only from its select and only once cancellation has been
\* signalled; a Collect() that fails and a Send() that fails put the task
\* back at its select; and a tick delivered to a running task is followed by
\* a Collect() call unless cancellation is signalled.
C31_OnlyCancellationEndsTask ==
    /\ [](\A c \in Names : pc[c] = "done" => cancelled)
    /\ [][\A c \in Names :
            /\ (pc[c] # "done" /\ pc'[c] = "done")
                  => pc[c] = "select" /\ cancelled
            /\ (metricsCollected'[c] # metricsCollected[c]
                   /\ collectedOK' = collectedOK)
                  => pc'[c] = "select"
            /\ (pc[c] = "send" /\ pc'[c] # "send") => pc'[c] = "select"]_vars
    /\ \A c \in Names :
          (Running(c) /\ tickPending[c]) ~> (pc[c] = "collecting" \/ cancelled)

\* C31 witness: the first Collect() of system failed, the second succeeded
\* and its delivery failed, and system is collecting for the third time
C31_Witness ==
    /\ ~cancelled
    /\ pc["system"] = "collecting"
    /\ metricsCollected["system"] = 2
    /\ collectedOK = 1
    /\ currentCollectedData["system"] = 2
    /\ metricsSent["failure"] = 1

\* C32: once the latest report carries a sample of an adapter, every later
\* latest report carries that sample or a newer one of that adapter (samples
\* of an adapter are numbered in the order they were taken; 0 is no entry).
C32_LatestReportNeverGoesBack ==
    [][\A n \in Names :
          latestAgentReport[n] # 0
             => latestAgentReport'[n] >= latestAgentReport[n]]_vars

\* C33: a name that is in the map stays in the map, and whenever the entry of
\* a name changes, the step is the write of the task that owns the adapter of
\* that name, made while that task holds the write lock.
C33_EntriesStayAndHaveOneWriter ==
    [][\A n \in Names :
          /\ currentCollectedData[n] # 0 => currentCollectedData'[n] # 0
          /\ currentCollectedData'[n] # currentCollectedData[n]
                => /\ pc[n] = "write" /\ pc'[n] = "unlock"
                   /\ uiDataMutex.w = n
                   /\ \A d \in Names \ {n} : pc'[d] = pc[d]]_vars

\* C33 witness: all three names are in the map and nginx, the last to get
\* there, has just written its entry
C33_Witness ==
    /\ \A n \in Names : currentCollectedData[n] # 0
    /\ pc["nginx"] = "unlock" /\ uiDataMutex.w = "nginx"
    /\ pc["system"] = "send" /\ pc["mysql"] = "mu_lock"

\* the positions of task c at which its report has been given c's entry
\* (main.go:264-272 read system, mysql, nginx in that order)
OwnEntryRead(c) ==
    pc[c] \in ( [system |-> {"rd_mysql", "rd_nginx"},
                 mysql  |-> {"rd_nginx"},
                 nginx  |-> {}][c]
               \cup {"runlock", "mu_lock", "publish", "send"} )

\* C34: the report a task builds carries, under the task's own name, the
\* sample the task collected in this tick (the sample of its latest
\* Collect() call), and that is the entry the task publishes.
C34_ReportCarriesOwnFreshSample ==
    /\ [](\A c \in Names :
            OwnEntryRead(c)
               => /\ fullReport[c][c] = metricsCollected[c]
                  /\ fullReport[c][c] = collectedMetrics[c])
    /\ [][\A c \in Names :
            (pc[c] = "publish" /\ pc'[c] = "send")
               => latestAgentReport'[c] = metricsCollected[c]]_vars

\* C34 witness: mysql has read the map in its second tick: its report holds
\* its second sample and the sample system wrote in the meantime
C34_Witness ==
    /\ pc["mysql"] = "runlock"
    /\ fullReport["mysql"]["mysql"] = 2
    /\ fullReport["mysql"]["system"] = 1
    /\ latestAgentReport["mysql"] = 1
    /\ latestAgentReport["system"] = 0

\* C38: a Collect() call of an adapter starts only when its task is at the
\* select and takes a tick, so never while a Collect() or a Send() of that
\* task is in flight; a tick that fires while the task is busy only fills
\* the ticker's channel and leaves the task where it is; and the tick is
\* taken out of the channel only by the select.
C38_NoOverlappingCycle ==
    [][\A c \in Names :
          /\ (pc'[c] = "collecting" /\ pc[c] # "collecting")
                => pc[c] = "select" /\ tickPending[c] /\ ~tickPending'[c]
          /\ (tickPending[c] /\ ~tickPending'[c])
                => pc[c] = "select" /\ pc'[c] = "collecting"
          /\ (~tickPending[c] /\ tickPending'[c])
                => /\ pc'[c] = pc[c]
                   /\ metricsCollected' = metricsCollected
                   /\ metricsSent' = metricsSent]_vars

\* C38 witness: a tick fired for system while its Send() is in flight and
\* waits in the channel, next to a Collect() of mysql in flight
C38_Witness ==
    /\ pc["system"] = "send" /\ tickPending["system"]
    /\ pc["mysql"] = "collecting"

\* C39: the return of a Collect() call, failed or not, adds one to the
\* adapter's attempted-collections counter and nothing else changes it (an
\* adapter without a task stays at 0); the deliveries counted as success or
\* failure are never more than the successful collections, and are exactly
\* as many when no task is between its Collect() return and its Send()
\* return.
C39_CountersConsistent ==
    /\ [](/\ metricsSent["success"] + metricsSent["failure"] <= collectedOK
          /\ (\A c \in Names : ~InCycle(c) /\ pc[c] # "send")
                => metricsSent["success"] + metricsSent["failure"] = collectedOK
          /\ \A c \in Names : pc[c] = "none" => metricsCollected[c] = 0)
    /\ [][\A c \in Names :
            metricsCollected'[c] =
                metricsCollected[c]
                  + (IF pc[c] = "collecting" /\ pc'[c] # "collecting"
                       THEN 1 ELSE 0)]_vars

\* C39 witness: three collections returned, two of them successful, both
\* delivered (one counted as failure) and no task is in a cycle
C39_Witness ==
    /\ metricsCollected["system"] = 2 /\ metricsCollected["nginx"] = 1
    /\ collectedOK = 2
    /\ collectorStatus["system"] = 0
    /\ metricsSent["success"] = 1 /\ metricsSent["failure"] = 1
    /\ \A c \in Names : ~InCycle(c) /\ pc[c] # "send"

(***************************************************************************)
(* Part III : claims                                                       *)
(***************************************************************************)
\* C19: the handler answers with the marker if and only if latestAgentReport
\* was nil when the handler read it under mu.RLock, and latestAgentReport
\* never becomes nil again once a report is published: a request that reads
\* after the first publish gets a report, and a report is only ever returned
\* after a publish.
C19_MarkerIffNoReport ==
    /\ [](response.kind = "report" => latestAgentReport # NilReport)
    /\ [][/\ latestAgentReport # NilReport => latestAgentReport' # NilReport
          /\ (viewPc = "read" /\ viewPc' # "read")
                => (report' = NilReport <=> latestAgentReport = NilReport)
          /\ (viewPc = "respond" /\ viewPc' # "respond")
                => (response' = ErrorResponse <=> report = NilReport)]_vars

\* C19 witness: one request was answered with the marker, and the next one,
\* which read after the first publish, is about to be answered with a report
C19_Witness ==
    /\ response = ErrorResponse
    /\ viewPc = "respond"
    /\ report # NilReport
    /\ report = latestAgentReport

\* no goroutine holds a sample that it has still to store or to publish
NoSampleInFlight == \A c \in Names : ~InCycle(c)

\* C20: while every sample fails (no goroutine gets or holds a new sample),
\* no step changes currentCollectedData or latestAgentReport, and a request
\* that reads in such a state is answered with exactly the published report.
C20_LastGoodReportStays ==
    [][(NoSampleInFlight /\ NoSampleInFlight')
          => /\ currentCollectedData' = currentCollectedData
             /\ latestAgentReport' = latestAgentReport
             /\ (viewPc = "read" /\ viewPc' # "read")
                   => report' = latestAgentReport
             /\ (viewPc = "respond" /\ viewPc' # "respond"
                    /\ report # NilReport /\ report = latestAgentReport)
                   => response' = ReportResponse(latestAgentReport)]_vars

\* C20 witness: system's second sample failed after its first one was
\* published; a request was answered with that report and the next request
\* has read the same report again
C20_Witness ==
    /\ NoSampleInFlight
    /\ metricsCollected["system"] = 2 /\ collectorStatus["system"] = 0
    /\ latestAgentReport.system = 1
    /\ response = ReportResponse(latestAgentReport)
    /\ viewPc = "respond" /\ report = latestAgentReport

\* goroutine p holds uiDataMutex (main.go:249, 263), holds mu (l.155, 277)
HoldsState(p) == uiDataMutex.w = p \/ p \in uiDataMutex.r
HoldsLatest(p) == mu.w = p \/ p \in mu.r

\* C29: no task and no handler holds uiDataMutex and mu at once, and the
\* handler never holds uiDataMutex; a handler that cannot take its read lock
\* is kept out by a task holding mu, and that task can take its next step;
\* a task that cannot take the lock it asks for is kept out by a holder of
\* that very lock who can take its next step.  So nobody waits in a cycle.
C29_LocksIndependent ==
    /\ \A p \in Names \cup {Viewer} : ~(HoldsState(p) /\ HoldsLatest(p))
    /\ ~HoldsState(Viewer)
    /\ (viewPc = "rlock" /\ ~ENABLED ViewRLock)
          => \E d \in Names : mu.w = d /\ ENABLED Task(d)
    /\ \A c \in Names :
          /\ (pc[c] \in {"lock", "rlock"} /\ ~ENABLED Task(c))
                => \E d \in Names \ {c} : HoldsState(d) /\ ENABLED Task(d)
          /\ (pc[c] = "mu_lock" /\ ~ENABLED Task(c))
                => \/ \E d \in Names \ {c} : mu.w = d /\ ENABLED Task(d)
                   \/ Viewer \in mu.r /\ ENABLED Handler

\* C29 witness: the handler holds mu for reading while one task waits for mu
\* to publish and another task holds uiDataMutex for its write
C29_Witness ==
    /\ viewPc = "read" /\ Viewer \in mu.r
    /\ \E c, d \in Names :
          /\ pc[c] = "mu_lock" /\ ~ENABLED Task(c)
          /\ pc[d] = "write" /\ uiDataMutex.w = d

(***************************************************************************)
(* Part II : claims                                                        *)
(***************************************************************************)
\* C8: after WriteMessage failed on a connection inside SendLog, the sender
\* gets DISCONNECTED (that connection is closed and s.conn is nil), and no
\* SendLog call starts a write on a connection on which a write has failed.
C8_WriteFailureDisconnects ==
    /\ \A h \in Conns : (h \in failedConns) ~> (conn = 0 /\ h \in closedConns)
    /\ [][\A e \in Emitters :
             (spc[EmitP(e)] = "lock" /\ spc'[EmitP(e)] = "write")
                => conn \notin failedConns]_vars

\* C9: a SendLog call that finds the sender DISCONNECTED never has to wait for
\* a connection attempt: no call waits for s.mu with s.conn nil while connect()
\* is inside Dial.
C9_EmitNeverWaitsForDial ==
    \A e \in Emitters :
        (spc[EmitP(e)] = "lock" /\ conn = 0) => spc[LoopP] # "dialing"

\* C10: SendLog while DISCONNECTED drops the line.  The step by which a call
\* goes on from taking s.mu with s.conn nil is its return: it writes no
\* frame, closes nothing, leaves s.conn nil and s.mu free; and a line dropped
\* this way is never written later, on any connection.
C10_DisconnectedEmitDrops ==
    /\ [](\A l \in dropped : \A h \in Conns : <<l, h>> \notin frames)
    /\ [][\A e \in Emitters :
             (spc[EmitP(e)] = "lock" /\ spc'[EmitP(e)] # "lock" /\ conn = 0)
                => /\ spc'[EmitP(e)] = "idle"
                   /\ emitLine[e] \in dropped'
                   /\ frames' = frames
                   /\ closedConns' = closedConns
                   /\ conn' = 0
                   /\ senderMu' = NoProc]_vars

\* C10 witness: a line was dropped while the sender was DISCONNECTED, the
\* sender connected afterwards and a later line was written
C10_Witness ==
    \E l \in dropped : \E f \in frames : f[1] > l /\ conn = f[2]

\* C11: every SendLog call returns, and s.mu is released again whenever it is
\* held (unless the process has crashed meanwhile).
C11_SendLogReturns ==
    /\ \A e \in Emitters :
          (spc[EmitP(e)] # "idle") ~> (spc[EmitP(e)] = "idle" \/ panicked)
    /\ (senderMu # NoProc) ~> (senderMu = NoProc \/ panicked)

\* the connections that Dial has returned and on which Close() was not called
LiveConns == {h \in 1..opened : h \notin closedConns}

\* C12: at most one connection is live at any time, and a live connection is
\* the one s.conn refers to (so every connection that s.conn referred to
\* before was closed before the handle was replaced); while connect() is
\* inside Dial the handle is nil.
C12_AtMostOneLiveConnection ==
    /\ Cardinality(LiveConns) <= 1
    /\ LiveConns \subseteq {conn}
    /\ spc[LoopP] = "dialing" => conn = 0

\* C12 witness: the second connection is live and monitored after the first
\* one was closed
C12_Witness ==
    /\ opened = 2 /\ conn = 2
    /\ LiveConns = {2}
    /\ spc[PumpP(2)] = "reading"

\* the connectLoop has returned and nothing is connected
SenderStopped == spc[LoopP] = "done" /\ conn = 0 /\ LiveConns = {}

\* C13: once s.ctx is cancelled, the connectLoop eventually returns, every
\* live connection is eventually closed, and from then on the sender stays
\* DISCONNECTED for good (unless the process has crashed meanwhile).
C13_ShutdownDisconnects ==
    senderCtxDone ~> (panicked \/ []SenderStopped)

\* C14: a SendLog call made after Close() has returned writes no frame: every
\* frame carries a line that was handed to SendLog before Close() returned.
C14_NoFrameAfterClose ==
    linesAtClose >= 0 => \A f \in frames : f[1] <= linesAtClose

\* goroutine p is at a statement that reads s.conn or is inside a call on the
\* connection it read there: Dial (l.183), s.conn.ReadMessage() (l.210),
\* s.conn.WriteMessage() (l.259)
TouchesHandle(p) == spc[p] \in {"dialing", "deref", "reading", "write"}

\* C15: a goroutine that reads s.conn or uses the connection holds s.mu, so
\* at most one goroutine does so at a time.
C15_HandleAccessUnderLock ==
    /\ \A p \in SenderProcs : TouchesHandle(p) => senderMu = p
    /\ Cardinality({p \in SenderProcs : TouchesHandle(p)}) <= 1

\* C24: while no dial has succeeded the sender is DISCONNECTED (s.conn nil,
\* nothing written, nothing to close); a dial that fails leaves s.conn nil,
\* releases s.mu and puts the loop back at its select; a reconnect tick taken
\* with s.conn nil calls connect(); and that call, with a URL that parses,
\* gets to Dial.
C24_UnreachableStaysDisconnected ==
    /\ [](opened = 0 => conn = 0 /\ frames = {} /\ closedConns = {})
    /\ [][/\ (spc[LoopP] = "dialing" /\ spc'[LoopP] # "dialing"
                /\ opened' = opened)
                => /\ conn' = 0 /\ senderMu' = NoProc
                   /\ spc'[LoopP] = "select"
          /\ (spc[LoopP] = "select" /\ reconnectTick /\ ~reconnectTick'
                /\ conn = 0)
                => spc'[LoopP] = "conn_lock"]_vars
    /\ (spc[LoopP] = "conn_lock" /\ opened = 0 /\ urlValid)
           ~> (spc[LoopP] = "dialing")

\* C24 witness: nothing has ever connected, two lines were dropped, the loop
\* is inside Dial and the next reconnect tick is already waiting
C24_Witness ==
    /\ opened = 0 /\ conn = 0
    /\ spc[LoopP] = "dialing"
    /\ reconnectTick
    /\ dropped = {1, 2}

\* C25: a connection that was dropped, by a failed write or by a read error
\* of its readPump, is replaced: unless the sender is shut down, a newer
\* connection becomes the sender's connection (the endpoint accepts
\* connections and one more connection is available).
C25_ReconnectsAfterDrop ==
    \A h \in Conns :
        (/\ opened = h /\ h < MaxConns /\ urlValid
         /\ ~senderCtxDone
         /\ \/ h \in failedConns
            \/ spc[PumpP(h)] \in {"disc_lock", "done"})
            ~> (conn > h \/ senderCtxDone)

\* C26: a readPump whose read failed (it is in its disconnect() and the
\* context is not cancelled, so it did not leave through ctx.Done()) gets
\* through that disconnect(): when it has, s.conn is nil and the connection
\* s.conn held is closed; and no step of a readPump dials (the number of
\* connections made and the reconnect loop's position do not change).
C26_ReadErrorDisconnects ==
    /\ \A h \in Conns :
          (spc[PumpP(h)] = "disc_lock" /\ ~senderCtxDone)
             ~> (spc[PumpP(h)] = "done" \/ panicked)
    /\ [][\A h \in Conns :
            /\ (spc[PumpP(h)] = "disc_lock" /\ spc'[PumpP(h)] = "done")
                  => /\ conn' = 0
                     /\ conn # 0 => conn \in closedConns'
            /\ (spc[PumpP(h)] # "none" /\ spc'[PumpP(h)] # spc[PumpP(h)])
                  => opened' = opened /\ spc'[LoopP] = spc[LoopP]]_vars

\* C35: no goroutine holds s.mu while it is at a call that has to take s.mu
\* (the Lock() of connect, disconnect or SendLog).
C35_NoSelfDeadlock ==
    \A p \in SenderProcs :
        senderMu = p
           => spc[p] \notin {"lock", "conn_lock", "disc_lock", "panic_disc_lock"}

\* the readPump goroutines that were started and have not ended
\* (http_sender.go:192, 196-220)
LivePumps == {h \in Conns : spc[PumpP(h)] \notin {"none", "done"}}

\* C36: when the readPump started for connection h gets through its
\* deferred disconnect(), the handle it closes and clears is nil or h, never
\* a newer connection; and at most one readPump is alive at a time.
C36_PumpClosesOwnConnOnly ==
    /\ [][\A h \in Conns :
            (spc[PumpP(h)] \in {"disc_lock", "panic_disc_lock"}
               /\ spc'[PumpP(h)] = "done")
               => conn \in {0, h}]_vars
    /\ [](Cardinality(LivePumps) <= 1)

\* C37: whenever a readPump calls s.conn.ReadMessage(), s.conn is not nil:
\* no readPump ends in the nil dereference and the process does not crash.
C37_NoReadOnNilHandle ==
    /\ [][\A h \in Conns :
            (spc[PumpP(h)] = "deref" /\ spc'[PumpP(h)] # "deref") => conn # 0]_vars
    /\ [](~panicked)

(***************************************************************************)
(* Part IV : claims                                                        *)
(***************************************************************************)
\* C16: Send returns nil exactly when client.Do delivered a response and its
\* status is in 200..299.  A serialization error, a request that cannot be
\* built and a transport error return an error without a response; a
\* response with any other status returns an error.
C16_SendNilIffSuccessStatus ==
    \A c \in Names :
        hpc[c] = "returned"
           => /\ err[c] # "pending"
              /\ (err[c] = "nil") <=> (resp[c] \in 200..299)
              /\ (err[c] \in {"marshal", "request", "transport"}) <=> (resp[c] = 0)

\* C16 witness: three calls have returned, one nil on a 299, one an error on
\* a 500 and one an error because the transport failed
C16_Witness ==
    /\ \A c \in Names : hpc[c] = "returned"
    /\ err["system"] = "nil" /\ resp["system"] = 299
    /\ err["mysql"] = "status" /\ resp["mysql"] = 500
    /\ err["nginx"] = "transport" /\ resp["nginx"] = 0


(***************************************************************************)
(* Part V : claims                                                         *)
(***************************************************************************)
\* the collectors main() starts for a configuration: system always, a plugin
\* when its section is enabled (main.go:176, 181, 193)
ActiveIn(c, conf) ==
    \/ c = "system"
    \/ c = "mysql" /\ conf.MySQL.set /\ conf.MySQL.Enabled
    \/ c = "nginx" /\ conf.Nginx.set /\ conf.Nginx.Enabled

\* LoadConfig has returned a configuration and no error
LoadedOK == cpc \in {"returned", "built"} /\ loadErr = "nil"

\* C40: a configuration returned without error has a name, an id and a
\* target URL, a positive interval_seconds and a positive collection interval
\* in every enabled plugin section; the interval of the ticker of every
\* collector built from it is positive; a file with an agent_id gives that
\* agent_id back; and a load after a load that succeeded returns the same
\* agent_id.
C40_LoadedConfigValid ==
    /\ [](LoadedOK
         => /\ cfg.AgentName # "" /\ cfg.AgentID # "" /\ cfg.TargetURL # ""
            /\ cfg.IntervalSeconds > 0
            /\ cfg.MySQL.Enabled => cfg.MySQL.CollectionIntervalSeconds > 0
            /\ cfg.Nginx.Enabled => cfg.Nginx.CollectionIntervalSeconds > 0
            /\ (data.kind = "yaml" /\ data.body.AgentID # "")
                  => cfg.AgentID = data.body.AgentID)
    /\ [](cpc = "built" => \A c \in Names : ActiveIn(c, cfg) => interval[c] > 0)
    /\ [][(prevID # "" /\ prevID' # "") => prevID' = prevID]_vars

====
